---- MODULE Spec2Model ----
(***************************************************************************)
(* R-Memory (src/extensions/r-memory.js): the conversation memory          *)
(* compression engine.  Texts are sequences of one-character strings, so   *)
(* that lengths, slices, joins and newline positions are the ones the      *)
(* JavaScript computes.  Configuration values are scaled down (a block of  *)
(* 8 tokens instead of 4000); the code reads them from config and never    *)
(* assumes a magnitude.                                                     *)
(***************************************************************************)
EXTENDS Integers, Sequences, FiniteSets, TLC

\* ------------------------------------------------------------------------
\* Configuration (DEFAULT_CONFIG, scaled down) and model bounds
\* ------------------------------------------------------------------------
BlockSize == 8
MinSwapTokens == 4
MinCompressChars == 14
CompressTrigger == 10
EvictTrigger == 53
MaxParallelCompressions == 1
MaxSegLen == 4
MaxWindow == 2
MaxReqs == 2
MaxSessions == 1
MaxConcurrent == 1
MaxTurns == 1
MaxRivalSessions == 2
MaxRivalRequests == 2
MaxParallelLoaded == 3
DayTicks == 4
MaxRawLen == 88
\* The cache ceiling (2000 at line 86), scaled down like the configuration.
MAX_CACHE_SIZE == 2

overheadPerBlock == 15
baseOverhead == 20

\* ------------------------------------------------------------------------
\* Text
\* ------------------------------------------------------------------------
NL == "\n"

Rep(c, n) == [i \in 1..n |-> c]

Slice(text, from, to) == SubSeq(text, from + 1, IF to < Len(text) THEN to ELSE Len(text))

RECURSIVE JoinTexts(_, _)
JoinTexts(parts, sep) ==
  IF Len(parts) = 0 THEN <<>>
  ELSE IF Len(parts) = 1 THEN parts[1]
  ELSE parts[1] \o sep \o JoinTexts(Tail(parts), sep)

hashText(text) == [sha256 |-> text]

estimateTokens(text) == (Len(text) + 3) \div 4

\* ------------------------------------------------------------------------
\* Messages.  A message is [role, content, array]; content is the string
\* content of a user/toolResult/custom message, the single text part of an
\* assistant message (array = TRUE; an assistant message whose content is a
\* plain string, array = FALSE, renders as its tag alone), or the summary
\* of a compactionSummary/branchSummary.
\* ------------------------------------------------------------------------
TagHuman == <<"[", "H", "u", "m", "a", "n", "]", ":">>
TagAI == <<"[", "A", "I", "]", ":">>
TagToolResult == <<"[", "T", "o", "o", "l", " ", "R", "e", "s", "u", "l", "t", "]", ":">>
TagPrevious == <<"[", "P", "r", "e", "v", "i", "o", "u", "s", " ", "C", "o", "m", "p", "r", "e", "s", "s", "e", "d", "]", ":">>
TagBranch == <<"[", "B", "r", "a", "n", "c", "h", " ", "C", "o", "n", "t", "e", "x", "t", "]", ":">>
TagCustom == <<"[", "C", "u", "s", "t", "o", "m", "]", ":">>
Truncated == <<NL, ".", ".", ".", "[", "t", "r", "u", "n", "c", "a", "t", "e", "d", "]", ".", ".", ".", NL>>

extractMessageText(msg) ==
  CASE msg.role = "user" -> JoinTexts(<<TagHuman, msg.content>>, <<NL>>)
    [] msg.role = "assistant" ->
         IF msg.array THEN JoinTexts(<<TagAI, msg.content>>, <<NL>>) ELSE TagAI
    [] msg.role = "toolResult" ->
         JoinTexts(<<TagToolResult,
                     IF Len(msg.content) > 8000
                     THEN Slice(msg.content, 0, 4000) \o Truncated
                          \o Slice(msg.content, Len(msg.content) - 2000, Len(msg.content))
                     ELSE msg.content>>, <<NL>>)
    [] msg.role = "compactionSummary" -> JoinTexts(<<TagPrevious, msg.content>>, <<NL>>)
    [] msg.role = "branchSummary" -> JoinTexts(<<TagBranch, msg.content>>, <<NL>>)
    [] OTHER -> JoinTexts(<<TagCustom, msg.content>>, <<NL>>)

RECURSIVE MapText(_)
MapText(messages) ==
  IF Len(messages) = 0 THEN <<>>
  ELSE <<extractMessageText(messages[1])>> \o MapText(Tail(messages))

\* ------------------------------------------------------------------------
\* Block creation helpers
\* ------------------------------------------------------------------------
finalizeBlock(messages) ==
  LET text == JoinTexts(MapText(messages), <<NL, NL>>)
  IN [messages |-> messages, text |-> text, hash |-> hashText(text),
      tokens |-> estimateTokens(text)]

EntryMessages(entries) == [i \in 1..Len(entries) |-> entries[i].message]

\* A variant that joins the Units with a single newline.
finalizeEntryBlock_SingleNewline(entries) ==
  LET text == JoinTexts(MapText(EntryMessages(entries)), <<NL>>)
  IN [entries |-> entries, firstEntryId |-> entries[1].id,
      firstEntryIndex |-> entries[1].index, text |-> text,
      hash |-> hashText(text), tokens |-> estimateTokens(text)]

finalizeEntryBlock(entries) ==
  LET text == JoinTexts(MapText(EntryMessages(entries)), <<NL, NL>>)
  IN [entries |-> entries, firstEntryId |-> entries[1].id,
      firstEntryIndex |-> entries[1].index, text |-> text,
      hash |-> hashText(text), tokens |-> estimateTokens(text)]

\* remaining.lastIndexOf("\n", maxChars): the greatest 0-based index
\* <= maxChars holding a newline, -1 when there is none.
LastIndexOfNL(text, fromIndex) ==
  LET hits == {p \in 0..fromIndex : p < Len(text) /\ text[p + 1] = NL}
  IN IF hits = {} THEN -1 ELSE CHOOSE p \in hits : \A q \in hits : q <= p

\* A variant that drops what remains after the first chunk.
hardSplitText_FirstChunk(text, maxChars) ==
  IF Len(text) > maxChars THEN <<Slice(text, 0, maxChars)>>
  ELSE IF Len(text) > 0 THEN <<text>> ELSE <<>>

RECURSIVE hardSplitText(_, _)
hardSplitText(text, maxChars) ==
  IF Len(text) > maxChars
  THEN LET newlinePos == LastIndexOfNL(text, maxChars)
           splitAt == IF 10 * newlinePos > 7 * maxChars THEN newlinePos + 1 ELSE maxChars
       IN <<Slice(text, 0, splitAt)>>
          \o hardSplitText(Slice(text, splitAt, Len(text)), maxChars)
  ELSE IF Len(text) > 0 THEN <<text>> ELSE <<>>

\* ------------------------------------------------------------------------
\* Block grouping from flat messages (agent_end path)
\* ------------------------------------------------------------------------
\* Step 1: the loop of lines 308-317; st = [turns, currentMsgs].
RECURSIVE MsgTurns(_, _, _)
MsgTurns(messages, turns, currentMsgs) ==
  IF Len(messages) = 0
  THEN IF Len(currentMsgs) > 0 THEN Append(turns, currentMsgs) ELSE turns
  ELSE LET msg == messages[1]
       IN IF msg.role = "compactionSummary" \/ msg.role = "branchSummary"
          THEN MsgTurns(Tail(messages), turns, currentMsgs)
          ELSE IF msg.role = "user" /\ Len(currentMsgs) > 0
          THEN MsgTurns(Tail(messages), Append(turns, currentMsgs), <<msg>>)
          ELSE MsgTurns(Tail(messages), turns, Append(currentMsgs, msg))

MsgChunkBlocks(msg, chunks) ==
  [c \in 1..Len(chunks) |->
     [messages |-> <<msg>>, text |-> chunks[c], hash |-> hashText(chunks[c]),
      tokens |-> estimateTokens(chunks[c])]]

\* Steps 2 and 3 for one oversized turn: the loop of lines 338-376.
RECURSIVE MsgSplitTurn(_, _, _, _, _)
MsgSplitTurn(turnMsgs, blocks, blockMsgs, blockTokens, maxTokens) ==
  IF Len(turnMsgs) = 0
  THEN IF Len(blockMsgs) > 0 THEN Append(blocks, finalizeBlock(blockMsgs)) ELSE blocks
  ELSE LET msg == turnMsgs[1]
           msgText == extractMessageText(msg)
           msgTokens == estimateTokens(msgText)
       IN IF msgTokens > maxTokens
          THEN MsgSplitTurn(Tail(turnMsgs),
                 (IF Len(blockMsgs) > 0 THEN Append(blocks, finalizeBlock(blockMsgs)) ELSE blocks)
                   \o MsgChunkBlocks(msg, hardSplitText(msgText, maxTokens * 4)),
                 <<>>, 0, maxTokens)
          ELSE IF blockTokens + msgTokens > maxTokens /\ Len(blockMsgs) > 0
          THEN MsgSplitTurn(Tail(turnMsgs), Append(blocks, finalizeBlock(blockMsgs)),
                            <<msg>>, msgTokens, maxTokens)
          ELSE MsgSplitTurn(Tail(turnMsgs), blocks, Append(blockMsgs, msg),
                            blockTokens + msgTokens, maxTokens)

\* A variant without the one-Block-per-Turn rule of lines 319-332.
RECURSIVE MsgTurnBlocks_AlwaysSplit(_, _)
MsgTurnBlocks_AlwaysSplit(turns, maxTokens) ==
  IF Len(turns) = 0 THEN <<>>
  ELSE MsgSplitTurn(turns[1], <<>>, <<>>, 0, maxTokens)
       \o MsgTurnBlocks_AlwaysSplit(Tail(turns), maxTokens)

RECURSIVE MsgTurnBlocks(_, _)
MsgTurnBlocks(turns, maxTokens) ==
  IF Len(turns) = 0 THEN <<>>
  ELSE LET turnMsgs == turns[1]
           turnTokens == estimateTokens(JoinTexts(MapText(turnMsgs), <<NL, NL>>))
       IN (IF turnTokens <= maxTokens
           THEN <<finalizeBlock(turnMsgs)>>
           ELSE MsgSplitTurn(turnMsgs, <<>>, <<>>, 0, maxTokens))
          \o MsgTurnBlocks(Tail(turns), maxTokens)

groupMessagesIntoBlocks(messages) ==
  MsgTurnBlocks(MsgTurns(messages, <<>>, <<>>), IF BlockSize = 0 THEN 4000 ELSE BlockSize)

\* ------------------------------------------------------------------------
\* Block grouping from branchEntries (compaction path).  An entry is
\* [type, id, message, summary]; indexes are 0-based as in the source.
\* ------------------------------------------------------------------------
Msg(role, content) == [role |-> role, content |-> content, array |-> role = "assistant"]

NullMsg == [role |-> "null", content |-> <<>>, array |-> FALSE]

getMessageFromEntry(entry) ==
  CASE entry.type = "message" /\ entry.message # NullMsg -> entry.message
    [] entry.type = "custom" /\ entry.summary # <<>> ->
         [role |-> "assistant", content |-> entry.summary, array |-> FALSE]
    [] entry.type = "custom_message" -> Msg("custom", entry.summary)
    [] entry.type = "compaction" -> Msg("compactionSummary", entry.summary)
    [] entry.type = "branch_summary" -> Msg("branchSummary", entry.summary)
    [] OTHER -> NullMsg

\* Step 1: the loop of lines 391-404; i is the 0-based index.
RECURSIVE EntryTurns(_, _, _, _)
EntryTurns(branchEntries, i, turns, currentEntries) ==
  IF i >= Len(branchEntries)
  THEN IF Len(currentEntries) > 0 THEN Append(turns, currentEntries) ELSE turns
  ELSE LET entry == branchEntries[i + 1]
           msg == getMessageFromEntry(entry)
           e == [index |-> i, id |-> entry.id, message |-> msg]
       IN IF msg = NullMsg
          THEN EntryTurns(branchEntries, i + 1, turns, currentEntries)
          ELSE IF msg.role = "compactionSummary" \/ msg.role = "branchSummary"
          THEN EntryTurns(branchEntries, i + 1, turns, currentEntries)
          ELSE IF msg.role = "user" /\ Len(currentEntries) > 0
          THEN EntryTurns(branchEntries, i + 1, Append(turns, currentEntries), <<e>>)
          ELSE EntryTurns(branchEntries, i + 1, turns, Append(currentEntries, e))

EntryChunkBlocks(entry, chunks) ==
  [c \in 1..Len(chunks) |->
     [entries |-> <<entry>>, firstEntryId |-> entry.id, firstEntryIndex |-> entry.index,
      text |-> chunks[c], hash |-> hashText(chunks[c]),
      tokens |-> estimateTokens(chunks[c])]]

\* Steps 2 and 3 for one oversized turn: the loop of lines 424-460.
RECURSIVE EntrySplitTurn(_, _, _, _, _)
EntrySplitTurn(turnEntries, blocks, blockEntries, blockTokens, maxTokens) ==
  IF Len(turnEntries) = 0
  THEN IF Len(blockEntries) > 0
       THEN Append(blocks, finalizeEntryBlock(blockEntries)) ELSE blocks
  ELSE LET entry == turnEntries[1]
           msgText == extractMessageText(entry.message)
           msgTokens == estimateTokens(msgText)
       IN IF msgTokens > maxTokens
          THEN EntrySplitTurn(Tail(turnEntries),
                 (IF Len(blockEntries) > 0
                  THEN Append(blocks, finalizeEntryBlock(blockEntries)) ELSE blocks)
                   \o EntryChunkBlocks(entry, hardSplitText(msgText, maxTokens * 4)),
                 <<>>, 0, maxTokens)
          ELSE IF blockTokens + msgTokens > maxTokens /\ Len(blockEntries) > 0
          THEN EntrySplitTurn(Tail(turnEntries),
                              Append(blocks, finalizeEntryBlock(blockEntries)),
                              <<entry>>, msgTokens, maxTokens)
          ELSE EntrySplitTurn(Tail(turnEntries), blocks, Append(blockEntries, entry),
                              blockTokens + msgTokens, maxTokens)

RECURSIVE EntryTurnBlocks(_, _)
EntryTurnBlocks(turns, maxTokens) ==
  IF Len(turns) = 0 THEN <<>>
  ELSE LET turnEntries == turns[1]
           turnTokens ==
             estimateTokens(JoinTexts(MapText(EntryMessages(turnEntries)), <<NL, NL>>))
       IN (IF turnTokens <= maxTokens
           THEN <<finalizeEntryBlock(turnEntries)>>
           ELSE EntrySplitTurn(turnEntries, <<>>, <<>>, 0, maxTokens))
          \o EntryTurnBlocks(Tail(turns), maxTokens)

groupEntriesIntoBlocks(branchEntries, startIndex) ==
  EntryTurnBlocks(EntryTurns(branchEntries, startIndex, <<>>, <<>>),
                  IF BlockSize = 0 THEN 4000 ELSE BlockSize)

\* ------------------------------------------------------------------------
\* Message pool: the Units the host can put in a transcript.  Lengths are
\* relative to the block size so that every kind of Unit (below the swap
\* floor, half a block, larger than a block) exists at every block size.
\* ------------------------------------------------------------------------
maxCharsCfg == 4 * BlockSize

TinyUser == Msg("user", <<"h", "i">>)
HalfUser == Msg("user", Rep("a", 2 * BlockSize - 9))
HalfAI == Msg("assistant", Rep("b", 2 * BlockSize - 6))
BigTool == Msg("toolResult", Rep("c", maxCharsCfg - 22) \o <<NL>> \o Rep("d", 2 * BlockSize))
BigAI == Msg("assistant", Rep("e", maxCharsCfg + 2))
BranchMsg == Msg("branchSummary", <<"s">>)
TinyAI == Msg("assistant", <<"o", "k", "a">>)

SegPool == {TinyUser, TinyAI, HalfUser, HalfAI, BigTool, BigAI, BranchMsg}

RECURSIVE SeqsUpTo(_, _)
SeqsUpTo(S, n) ==
  IF n = 0 THEN {<<>>}
  ELSE LET shorter == SeqsUpTo(S, n - 1)
       IN shorter \cup {Append(q, x) : q \in {t \in shorter : Len(t) = n - 1}, x \in S}

\* ------------------------------------------------------------------------
\* State
\* ------------------------------------------------------------------------
VARIABLES
  enabled,                      \* config.enabled
  maxParallelCompressions,      \* config.maxParallelCompressions
  serviceUp,                    \* completeSimple && resolvedApiKey
  transcript,                   \* the host's transcript: [messages, summary]
  currentSessionId,
  compactionHistory,
  historyDisk,                  \* history-<session>.json, per session
  messageCache,                 \* Map in insertion order: <<[hash, result], ...>>
  cacheDisk,                    \* block-cache.json
  rawArchive,                   \* r-memory/archive/<hash>.md: {[hash, text]}
  memArchive,                   \* memory/archive/rmem-<date>-<hash8>.md
  compressionQueue,
  deferredCompactionMinBlocks,
  now,                          \* Date.now()
  turns,                        \* agent_end events handled so far
  turnState,                    \* how the last agent_end handler ended, and its narrative update
  req,                          \* the compaction requests, by request number
  segMessages, segBlocks, segEntryBlocks, segDone,
  cmpRaw, cmpResp, cmpResult, cmpDone   \* one call of compressSingleBlock

vars == <<enabled, maxParallelCompressions, serviceUp, transcript, currentSessionId, compactionHistory,
          historyDisk, messageCache, cacheDisk, rawArchive, memArchive,
          compressionQueue, deferredCompactionMinBlocks, now, turns, turnState, req,
          segMessages, segBlocks, segEntryBlocks, segDone,
          cmpRaw, cmpResp, cmpResult, cmpDone>>

engineVars == <<enabled, maxParallelCompressions, serviceUp, transcript, currentSessionId, compactionHistory,
                historyDisk, messageCache, cacheDisk, rawArchive, memArchive,
                compressionQueue, deferredCompactionMinBlocks, now, turns, turnState, req>>

segVars == <<segMessages, segBlocks, segEntryBlocks, segDone>>

cmpVars == <<cmpRaw, cmpResp, cmpResult, cmpDone>>

\* What an engine step leaves alone.
apartVars == <<segVars, cmpVars>>

Sessions == 1..MaxSessions

\* The sessions of the specification of concurrent sessions.
RivalSessions == 1..MaxRivalSessions
ReqIds == 1..MaxReqs

\* ------------------------------------------------------------------------
\* Segmenter specification: both entry points applied to one Unit sequence
\* ------------------------------------------------------------------------
\* The transcript entry the host stores for a message of the flat list.
EntryOf(msg, id) ==
  IF msg.role = "branchSummary"
  THEN [type |-> "branch_summary", id |-> id, message |-> NullMsg, summary |-> msg.content]
  ELSE [type |-> "message", id |-> id, message |-> msg, summary |-> <<>>]

EntriesOf(messages, s, offset) ==
  [i \in 1..Len(messages) |-> EntryOf(messages[i], <<s, offset + i>>)]

\* A variant that writes no archive file.
archiveRawBlock_Skip(archive, hash, rawText) == archive

\* ------------------------------------------------------------------------
\* Archive and cache
\* ------------------------------------------------------------------------
archiveRawBlock(archive, hash, rawText) ==
  IF \E f \in archive : f.hash = hash THEN archive
  ELSE archive \cup {[hash |-> hash, text |-> rawText]}

NullSession == <<>>
DefaultSession == <<"default">>

detectSessionId(branchEntries) ==
  IF Len(branchEntries) > 0
  THEN (IF branchEntries[1].id # <<>> THEN branchEntries[1].id ELSE DefaultSession)
  ELSE DefaultSession

loadCompactionHistory(disk, sessionId) == disk[sessionId]

saveCompactionHistory(disk, sessionId, history) == [disk EXCEPT ![sessionId] = history]

\* null: the value of a failed compression and of a cache miss.
NullResult == [compressed |-> <<>>, tokensRaw |-> -1, tokensCompressed |-> -1]

CacheHas(cache, hash) == \E k \in 1..Len(cache) : cache[k].hash = hash

CacheGet(cache, hash) ==
  IF CacheHas(cache, hash)
  THEN cache[CHOOSE k \in 1..Len(cache) : cache[k].hash = hash].result
  ELSE NullResult

\* Map.set: a new key goes last, an existing key keeps its place.
CacheSet(cache, hash, result) ==
  IF CacheHas(cache, hash)
  THEN [k \in 1..Len(cache) |->
          IF cache[k].hash = hash THEN [hash |-> hash, result |-> result] ELSE cache[k]]
  ELSE Append(cache, [hash |-> hash, result |-> result])

cleanupCache(cache) ==
  IF Len(cache) <= MAX_CACHE_SIZE THEN cache
  ELSE SubSeq(cache, Len(cache) - MAX_CACHE_SIZE + 1, Len(cache))

\* ------------------------------------------------------------------------
\* Compression.  resp is what the completion service does with the call:
\* [kind |-> "error" | "ok", text |-> its output]; "error" stands for an error
\* response, an exception of the call and a missing credential alike
\* (lines 644, 661 and 678 all return null).
\* ------------------------------------------------------------------------
RawResult(rawText) ==
  [compressed |-> rawText, tokensRaw |-> estimateTokens(rawText),
   tokensCompressed |-> estimateTokens(rawText)]

\* A variant without the sanity check of line 664.
compressSingleBlock_NoSanityCheck(rawText, resp) ==
  LET rawTokens == estimateTokens(rawText)
      compressedTokens == estimateTokens(resp.text)
  IN IF ~serviceUp THEN NullResult
     ELSE IF Len(rawText) < MinCompressChars THEN RawResult(rawText)
     ELSE IF resp.kind # "ok" THEN NullResult
     ELSE [compressed |-> resp.text, tokensRaw |-> rawTokens,
           tokensCompressed |-> compressedTokens]

compressSingleBlock(rawText, resp) ==
  LET rawTokens == estimateTokens(rawText)
      compressedTokens == estimateTokens(resp.text)
  IN IF ~serviceUp THEN NullResult
     ELSE IF Len(rawText) < MinCompressChars THEN RawResult(rawText)
     ELSE IF resp.kind # "ok" THEN NullResult
     ELSE IF 100 * compressedTokens >= 95 * rawTokens THEN RawResult(rawText)
     ELSE [compressed |-> resp.text, tokensRaw |-> rawTokens,
           tokensCompressed |-> compressedTokens]

\* Whether compressSingleBlock reaches the completion service.
CallsService(rawText) == serviceUp /\ Len(rawText) >= MinCompressChars

\* What the service can answer: a failure, a text a quarter of the input's
\* length, or a text as long as the input.
Responses(rawText) ==
  {[kind |-> "error", text |-> <<>>],
   [kind |-> "ok", text |-> Slice(rawText, Len(rawText) - Len(rawText) \div 4, Len(rawText))],
   [kind |-> "ok", text |-> rawText]}

RECURSIVE BatchResponses(_)
BatchResponses(batch) ==
  IF Len(batch) = 0 THEN {<<>>}
  ELSE {<<resp>> \o rest : resp \in Responses(batch[1].text),
                          rest \in BatchResponses(Tail(batch))}

\* ------------------------------------------------------------------------
\* FIFO eviction
\* ------------------------------------------------------------------------
DateOf(timestamp) == timestamp \div DayTicks

ArchiveFileName(block) ==
  [date |-> DateOf(block.timestamp), hash8 |-> hashText(block.compressed)]

\* A variant that writes the file whether or not it exists.
archiveEvictedBlock_Overwrite(archive, block, fsOk) ==
  IF ~fsOk THEN archive
  ELSE {f \in archive : f.filename # ArchiveFileName(block)} \cup
         {[filename |-> ArchiveFileName(block),
           header |-> [date |-> block.timestamp, session |-> currentSessionId,
                       tokensCompressed |-> block.tokensCompressed,
                       tokensRaw |-> block.tokensRaw],
           body |-> block.compressed]}

\* fsOk = FALSE: ensureDir or writeFileSync throws; the catch logs and goes on.
archiveEvictedBlock(archive, block, fsOk) ==
  IF ~fsOk THEN archive
  ELSE IF \E f \in archive : f.filename = ArchiveFileName(block) THEN archive
  ELSE archive \cup
         {[filename |-> ArchiveFileName(block),
           header |-> [date |-> block.timestamp, session |-> currentSessionId,
                       tokensCompressed |-> block.tokensCompressed,
                       tokensRaw |-> block.tokensRaw],
           body |-> block.compressed]}

RECURSIVE VisibleTokens(_)
VisibleTokens(history) ==
  IF Len(history) = 0 THEN 0
  ELSE history[1].tokensCompressed + overheadPerBlock + VisibleTokens(Tail(history))

\* A variant that also evicts when the total equals the trigger.
RECURSIVE EvictLoop_AtTrigger(_, _, _, _, _)
EvictLoop_AtTrigger(history, totalTokens, archive, evicted, fsOk) ==
  IF totalTokens >= EvictTrigger /\ Len(history) > 0
  THEN LET oldest == history[1]
       IN EvictLoop_AtTrigger(Tail(history),
                              totalTokens - (oldest.tokensCompressed + overheadPerBlock),
                              archiveEvictedBlock(archive, oldest, fsOk),
                              Append(evicted, oldest), fsOk)
  ELSE [history |-> history, archive |-> archive, evicted |-> evicted]

\* A variant that evicts the newest entry instead of the oldest.
RECURSIVE EvictLoop_Newest(_, _, _, _, _)
EvictLoop_Newest(history, totalTokens, archive, evicted, fsOk) ==
  IF totalTokens > EvictTrigger /\ Len(history) > 0
  THEN LET newest == history[Len(history)]
       IN EvictLoop_Newest(SubSeq(history, 1, Len(history) - 1),
                           totalTokens - (newest.tokensCompressed + overheadPerBlock),
                           archiveEvictedBlock(archive, newest, fsOk),
                           Append(evicted, newest), fsOk)
  ELSE [history |-> history, archive |-> archive, evicted |-> evicted]

\* The while loop of applyFifoEviction; the result is
\* [history, archive, evicted].
RECURSIVE EvictLoop(_, _, _, _, _)
EvictLoop(history, totalTokens, archive, evicted, fsOk) ==
  IF totalTokens > EvictTrigger /\ Len(history) > 0
  THEN LET oldest == history[1]
       IN EvictLoop(Tail(history), totalTokens - (oldest.tokensCompressed + overheadPerBlock),
                    archiveEvictedBlock(archive, oldest, fsOk), Append(evicted, oldest), fsOk)
  ELSE [history |-> history, archive |-> archive, evicted |-> evicted]

\* A variant that forgets the base overhead.
applyFifoEviction_NoBaseOverhead(history, archive, fsOk) ==
  EvictLoop(history, VisibleTokens(history), archive, <<>>, fsOk)

applyFifoEviction(history, archive, fsOk) ==
  EvictLoop(history, baseOverhead + VisibleTokens(history), archive, <<>>, fsOk)

\* ------------------------------------------------------------------------
\* Compaction handler: the pieces of handleBeforeCompact
\* ------------------------------------------------------------------------
\* An entry the host stored without an id.
NoId == <<>>

WithoutIds(entries) == [i \in 1..Len(entries) |-> [entries[i] EXCEPT !.id = NoId]]

\* The transcript the host sends for session s: a root entry that carries
\* no message, the previous compaction entry if any, then the window.
BranchEntries(s) ==
  <<[type |-> "model_change", id |-> <<s, 0>>, message |-> NullMsg, summary |-> <<>>]>>
  \o (IF transcript.summary # <<>>
      THEN <<[type |-> "compaction", id |-> <<s, 1>>, message |-> NullMsg,
              summary |-> transcript.summary]>>
      ELSE <<>>)
  \o (IF transcript.idless
      THEN WithoutIds(EntriesOf(transcript.messages, s, 1))
      ELSE EntriesOf(transcript.messages, s, 1))

\* Lines 786-792: 0-based index of the last compaction entry, or -1.
PrevCompactionIndex(branchEntries) ==
  LET hits == {i \in 0..(Len(branchEntries) - 1) : branchEntries[i + 1].type = "compaction"}
  IN IF hits = {} THEN -1 ELSE CHOOSE i \in hits : \A j \in hits : j <= i

\* A variant without the minimum-swap floor.
FilterTiny_KeepAll(allBlocks, minTokens) == allBlocks

\* Line 843.
RECURSIVE FilterTiny(_, _)
FilterTiny(allBlocks, minTokens) ==
  IF Len(allBlocks) = 0 THEN <<>>
  ELSE (IF allBlocks[1].tokens >= minTokens THEN <<allBlocks[1]>> ELSE <<>>)
       \o FilterTiny(Tail(allBlocks), minTokens)

\* Math.ceil(block.tokens * 0.6)
EstimateUncached(tokens) == (6 * tokens + 9) \div 10

\* A variant of the walk that stops only when the savings exceed the overflow.
RECURSIVE SavingsWalk_Strict(_, _, _, _, _, _)
SavingsWalk_Strict(blocks, cache, overflow, i, totalSaved, blocksToSwap) ==
  IF i >= Len(blocks) \/ totalSaved > overflow THEN blocksToSwap
  ELSE LET block == blocks[i + 1]
           cached == CacheGet(cache, block.hash)
           compressedTokens == IF cached # NullResult THEN cached.tokensCompressed
                               ELSE EstimateUncached(block.tokens)
       IN SavingsWalk_Strict(blocks, cache, overflow, i + 1,
                             totalSaved + (block.tokens - compressedTokens), i + 1)

\* Lines 876-887: the savings walk; i is the 0-based loop index.
RECURSIVE SavingsWalk(_, _, _, _, _, _)
SavingsWalk(blocks, cache, overflow, i, totalSaved, blocksToSwap) ==
  IF i >= Len(blocks) \/ totalSaved >= overflow THEN blocksToSwap
  ELSE LET block == blocks[i + 1]
           cached == CacheGet(cache, block.hash)
           compressedTokens == IF cached # NullResult THEN cached.tokensCompressed
                               ELSE EstimateUncached(block.tokens)
       IN SavingsWalk(blocks, cache, overflow, i + 1,
                      totalSaved + (block.tokens - compressedTokens), i + 1)

\* A variant without the clamp of lines 890-892.
KeepLastRaw_NoClamp(blocksToSwap, nBlocks) ==
  IF blocksToSwap = 0 THEN 1 ELSE blocksToSwap

\* Lines 889-892.
KeepLastRaw(blocksToSwap, nBlocks) ==
  LET atLeastOne == IF blocksToSwap = 0 THEN 1 ELSE blocksToSwap
  IN IF atLeastOne >= nBlocks THEN nBlocks - 1 ELSE atLeastOne

\* Lines 925-938.
SeedHistory(history, branchEntries, prevCompactionIndex, timeNow) ==
  IF Len(history) = 0 /\ prevCompactionIndex >= 0
     /\ branchEntries[prevCompactionIndex + 1].summary # <<>>
  THEN LET summary == branchEntries[prevCompactionIndex + 1].summary
       IN Append(history, [compressed |-> summary, tokensRaw |-> estimateTokens(summary),
                           tokensCompressed |-> estimateTokens(summary),
                           timestamp |-> timeNow - 1])
  ELSE history

\* Lines 950-972: the raw archive after the loop.
RECURSIVE ArchiveAll(_, _)
ArchiveAll(archive, toSwap) ==
  IF Len(toSwap) = 0 THEN archive
  ELSE ArchiveAll(archiveRawBlock(archive, toSwap[1].hash, toSwap[1].text), Tail(toSwap))

\* Lines 950-972: compressedSlots, one per swapped Block, null on a miss.
LookupSlots(toSwap, cache) ==
  [k \in 1..Len(toSwap) |->
     [hash |-> toSwap[k].hash, result |-> CacheGet(cache, toSwap[k].hash)]]

\* Lines 950-972: missedBlocks; slotIndex is 0-based.
RECURSIVE LookupMisses(_, _, _)
LookupMisses(toSwap, cache, k) ==
  IF k > Len(toSwap) THEN <<>>
  ELSE (IF CacheHas(cache, toSwap[k].hash) THEN <<>>
        ELSE <<[text |-> toSwap[k].text, hash |-> toSwap[k].hash,
                tokens |-> toSwap[k].tokens, slotIndex |-> k - 1]>>)
       \o LookupMisses(toSwap, cache, k + 1)

\* Line 983: a failed compression falls back to the raw text.
OrRaw(result, b) ==
  IF result # NullResult THEN result
  ELSE [compressed |-> b.text, tokensRaw |-> b.tokens, tokensCompressed |-> b.tokens]

\* Lines 981-986 for one batch: st = [cache, slots].
RECURSIVE StoreBatch(_, _, _, _, _)
StoreBatch(batch, resps, j, cache, slots) ==
  IF j > Len(batch) THEN [cache |-> cache, slots |-> slots]
  ELSE LET b == batch[j]
           result == OrRaw(compressSingleBlock(b.text, resps[j]), b)
       IN StoreBatch(batch, resps, j + 1, CacheSet(cache, b.hash, result),
                     [slots EXCEPT ![b.slotIndex + 1] = [hash |-> b.hash, result |-> result]])

\* A variant that assembles the parts newest first.
RECURSIVE CompressedParts_Reversed(_)
CompressedParts_Reversed(slots) ==
  IF Len(slots) = 0 THEN <<>>
  ELSE CompressedParts_Reversed(Tail(slots))
       \o (IF slots[1].result # NullResult THEN <<slots[1].result.compressed>> ELSE <<>>)

\* Lines 993-1001.
RECURSIVE CompressedParts(_)
CompressedParts(slots) ==
  IF Len(slots) = 0 THEN <<>>
  ELSE (IF slots[1].result # NullResult THEN <<slots[1].result.compressed>> ELSE <<>>)
       \o CompressedParts(Tail(slots))

PartSeparator == <<NL, NL, "-", "-", "-", NL, NL>>

\* Lines 1001-1009.
NewHistoryEntry(slots, totalRaw, timeNow) ==
  LET newBlock == JoinTexts(CompressedParts(slots), PartSeparator)
  IN [compressed |-> newBlock, tokensRaw |-> totalRaw,
      tokensCompressed |-> estimateTokens(newBlock), timestamp |-> timeNow]

RECURSIVE SumField(_, _)
SumField(history, raw) ==
  IF Len(history) = 0 THEN 0
  ELSE (IF raw THEN history[1].tokensRaw ELSE history[1].tokensCompressed)
       + SumField(Tail(history), raw)

\* Lines 1017-1030: the document, as its title line and its labeled sections.
RenderHistory(history) ==
  [blocks |-> Len(history), histCompressed |-> SumField(history, FALSE),
   histRaw |-> SumField(history, TRUE),
   sections |-> [k \in 1..Len(history) |->
                   [label |-> k, timestamp |-> history[k].timestamp,
                    text |-> history[k].compressed]]]

RECURSIVE SumTokens(_)
SumTokens(blocks) ==
  IF Len(blocks) = 0 THEN 0 ELSE blocks[1].tokens + SumTokens(Tail(blocks))

\* ------------------------------------------------------------------------
\* Compaction requests.  A request runs from the host's call to its first
\* await in one step (JavaScript runs a handler to its next await without
\* interleaving), then one step per batch of on-demand compressions.
\* ------------------------------------------------------------------------
NoResult == [kind |-> "none", summary |-> <<>>, firstKeptEntryId |-> <<>>, tokensBefore |-> 0]
Undefined == [kind |-> "undefined", summary |-> <<>>, firstKeptEntryId |-> <<>>, tokensBefore |-> 0]
\* A variant that hands the host nothing where it should cancel.
Cancel_AsUndefined ==
  [kind |-> "undefined", summary |-> <<>>, firstKeptEntryId |-> <<>>, tokensBefore |-> 0]

Cancel == [kind |-> "cancel", summary |-> <<>>, firstKeptEntryId |-> <<>>, tokensBefore |-> 0]

IdleReq ==
  [pc |-> "idle", session |-> 0, tokensBefore |-> 0, aborted |-> FALSE,
   blocksToSwap |-> 0,
   firstKeptEntryId |-> <<>>, totalRaw |-> 0, cacheHits |-> 0,
   missedBlocks |-> <<>>, compressedSlots |-> <<>>, i |-> 0,
   result |-> NoResult, stage |-> "idle",
   \* what the request found when it started, and what it did
   history0 |-> <<>>, historyDisk0 |-> <<>>, cache0 |-> <<>>, cacheDisk0 |-> <<>>,
   calls |-> 0, failed |-> 0, evicted |-> <<>>, archiveOk |-> TRUE]

Running(r) == req[r].pc = "awaiting"

\* Lines 1004-1030: push the new entry, evict, and what is then persisted
\* and returned.
FinishSwap(history, archive, slots, totalRaw, timeNow, fsOk) ==
  LET pushed == Append(history, NewHistoryEntry(slots, totalRaw, timeNow))
      ev == applyFifoEviction(pushed, archive, fsOk)
  IN [history |-> ev.history, archive |-> ev.archive, evicted |-> ev.evicted,
      summary |-> RenderHistory(ev.history)]

\* A variant whose handlers ignore the master switch.
Disabled_Ignored == FALSE

\* Lines 764 and 1274: the first test of either handler.
Disabled == ~enabled

\* A variant that lets a request with no overflow at all go on.
UnderTrigger_Strict(overflow) == overflow < 0

\* Lines 869-873: the host fired early or redundantly.
UnderTrigger(overflow) == overflow <= 0

\* Lines 950-953: the swap writes an archive file for a Block of toSwap
\* whose file does not exist yet.  archiveRawBlock is not guarded: a write
\* that fails throws out of handleBeforeCompact, and the handler at lines
\* 1322-1328 turns the exception into a cancellation.
WritesArchive(archive, toSwap) ==
  \E k \in 1..Len(toSwap) : \A f \in archive : f.hash # toSwap[k].hash

\* handleBeforeCompact from its entry to its first await or return: what
\* it computes (lines 763-972, and 990-1054 when nothing is left to await)
\* when every archive write succeeds.
SwapPlan(s, tokensBefore, abortedAtStart, memFsOk) ==
  LET branchEntries == BranchEntries(s)
      sessionId == detectSessionId(branchEntries)
      history1 == IF sessionId # currentSessionId
                  THEN loadCompactionHistory(historyDisk, sessionId)
                  ELSE compactionHistory
      prevCompactionIndex == PrevCompactionIndex(branchEntries)
      allBlocks == groupEntriesIntoBlocks(branchEntries, prevCompactionIndex + 1)
      blocks == FilterTiny(allBlocks, IF MinSwapTokens = 0 THEN 50 ELSE MinSwapTokens)
      overflow == tokensBefore - CompressTrigger
      blocksToSwap ==
        KeepLastRaw(SavingsWalk(blocks, messageCache, overflow, 0, 0, 0), Len(blocks))
      toSwap == SubSeq(blocks, 1, blocksToSwap)
      toKeepRaw == SubSeq(blocks, blocksToSwap + 1, Len(blocks))
      firstKeptEntryId == IF Len(toKeepRaw) > 0 THEN toKeepRaw[1].firstEntryId
                          ELSE branchEntries[Len(branchEntries)].id
      timeNow == 2 * (now + 1)
      history2 == SeedHistory(history1, branchEntries, prevCompactionIndex, timeNow)
      slots == LookupSlots(toSwap, messageCache)
      missed == LookupMisses(toSwap, messageCache, 1)
      fin == FinishSwap(history2, memArchive, slots, SumTokens(toSwap), timeNow, memFsOk)
      stage ==
        IF Disabled THEN "disabled"
        ELSE IF Len(branchEntries) = 0 THEN "noEntries"
        ELSE IF ~serviceUp THEN "noService"
        ELSE IF Len(blocks) = 0 THEN "noBlocks"
        ELSE IF deferredCompactionMinBlocks > 0
                /\ Len(blocks) < deferredCompactionMinBlocks THEN "deferred"
        ELSE IF UnderTrigger(overflow) THEN "underTrigger"
        ELSE IF blocksToSwap <= 0 THEN "deferNow"
        ELSE IF firstKeptEntryId = <<>> THEN "noFirstKept"
        ELSE IF abortedAtStart THEN "aborted"
        ELSE IF Len(missed) > 0 THEN "await"
        ELSE "swapped"
      tracked == stage \notin {"disabled", "noEntries", "noService"}
      planned == stage \in {"aborted", "await", "swapped"}
      swapping == stage \in {"await", "swapped"}
  IN [stage |-> stage,
      currentSessionId |-> IF tracked THEN sessionId ELSE currentSessionId,
      history0 |-> history1,
      seeded |-> history2,
      toSwap |-> IF swapping THEN toSwap ELSE <<>>,
      compactionHistory |->
        IF stage = "swapped" THEN fin.history
        ELSE IF planned THEN history2
        ELSE IF tracked THEN history1
        ELSE compactionHistory,
      deferred |-> IF stage = "deferNow" THEN 2
                   ELSE IF planned \/ stage = "noFirstKept" THEN 0
                   ELSE deferredCompactionMinBlocks,
      rawArchive |-> IF swapping THEN ArchiveAll(rawArchive, toSwap) ELSE rawArchive,
      memArchive |-> IF stage = "swapped" THEN fin.archive ELSE memArchive,
      evicted |-> IF stage = "swapped" THEN fin.evicted ELSE <<>>,
      blocksToSwap |-> IF planned THEN blocksToSwap ELSE 0,
      firstKeptEntryId |-> IF planned THEN firstKeptEntryId ELSE <<>>,
      totalRaw |-> IF swapping THEN SumTokens(toSwap) ELSE 0,
      cacheHits |-> IF swapping THEN Len(toSwap) - Len(missed) ELSE 0,
      missedBlocks |-> IF stage = "await" THEN missed ELSE <<>>,
      compressedSlots |-> IF swapping THEN slots ELSE <<>>,
      result |->
        IF stage = "swapped"
        THEN [kind |-> "compaction", summary |-> fin.summary,
              firstKeptEntryId |-> firstKeptEntryId, tokensBefore |-> tokensBefore]
        ELSE IF stage \in {"disabled", "aborted"} THEN Undefined
        ELSE IF stage = "await" THEN NoResult
        ELSE Cancel]

\* Lines 950-953 and 1322-1328: a swap whose first archive write fails
\* stops there, after the seeding of lines 925-938 and before any lookup,
\* with nothing archived, and the request is cancelled.
ArchiveFailure(plan, rawFsOk) ==
  IF /\ ~rawFsOk
     /\ plan.stage \in {"await", "swapped"}
     /\ WritesArchive(rawArchive, plan.toSwap)
  THEN [plan EXCEPT !.stage = "archiveFailed",
                    !.compactionHistory = plan.seeded,
                    !.rawArchive = rawArchive,
                    !.memArchive = memArchive,
                    !.evicted = <<>>,
                    !.totalRaw = 0,
                    !.cacheHits = 0,
                    !.missedBlocks = <<>>,
                    !.compressedSlots = <<>>,
                    !.result = Cancel]
  ELSE plan

\* handleBeforeCompact from its entry to its first await or return.
StartPlan(s, tokensBefore, abortedAtStart, memFsOk, rawFsOk) ==
  ArchiveFailure(SwapPlan(s, tokensBefore, abortedAtStart, memFsOk), rawFsOk)

\* The requests suspended at an await.
Suspended == {q \in ReqIds : req[q].pc = "awaiting"}

BeforeCompactStart(r, s, tokensBefore, abortedAtStart, memFsOk, rawFsOk) ==
  /\ req[r].pc = "idle"
  /\ \A q \in ReqIds : q < r => req[q].pc \in {"awaiting", "delivered"}
  /\ \A q \in ReqIds : q > r => req[q].pc = "idle"
  /\ \E plan \in {StartPlan(s, tokensBefore, abortedAtStart, memFsOk, rawFsOk)} :
       /\ memFsOk \/ Len(plan.evicted) > 0
       /\ rawFsOk \/ plan.stage = "archiveFailed"
       /\ currentSessionId' = plan.currentSessionId
       /\ compactionHistory' = plan.compactionHistory
       /\ deferredCompactionMinBlocks' = plan.deferred
       /\ rawArchive' = plan.rawArchive
       /\ memArchive' = plan.memArchive
       /\ historyDisk' =
            IF plan.stage = "swapped"
            THEN saveCompactionHistory(historyDisk, plan.currentSessionId,
                                       plan.compactionHistory)
            ELSE historyDisk
       /\ cacheDisk' = IF plan.stage = "swapped" THEN messageCache ELSE cacheDisk
       /\ now' = now + 1
       /\ req' = [req EXCEPT ![r] =
            [IdleReq EXCEPT
               !.pc = IF plan.stage = "await" THEN "awaiting" ELSE "returned",
               !.stage = plan.stage,
               !.session = s,
               !.tokensBefore = tokensBefore,
               !.aborted = abortedAtStart,
               !.blocksToSwap = plan.blocksToSwap,
               !.firstKeptEntryId = plan.firstKeptEntryId,
               !.totalRaw = plan.totalRaw,
               !.cacheHits = plan.cacheHits,
               !.missedBlocks = plan.missedBlocks,
               !.compressedSlots = plan.compressedSlots,
               !.history0 = plan.history0,
               !.historyDisk0 = historyDisk,
               !.cache0 = messageCache,
               !.cacheDisk0 = cacheDisk,
               !.evicted = plan.evicted,
               !.archiveOk = memFsOk,
               !.result = plan.result]]
  /\ UNCHANGED <<enabled, maxParallelCompressions, serviceUp, transcript, messageCache, compressionQueue, turns,
                 turnState>>

\* The host's cancellation signal fires while the request is suspended.
Abort(r) ==
  /\ Running(r)
  /\ ~req[r].aborted
  /\ req' = [req EXCEPT ![r].aborted = TRUE]
  /\ UNCHANGED <<enabled, maxParallelCompressions, serviceUp, transcript, currentSessionId, compactionHistory,
                 historyDisk, messageCache, cacheDisk, rawArchive, memArchive,
                 compressionQueue, deferredCompactionMinBlocks, now, turns, turnState>>

RECURSIVE CountCalls(_)
CountCalls(batch) ==
  IF Len(batch) = 0 THEN 0
  ELSE (IF CallsService(batch[1].text) THEN 1 ELSE 0) + CountCalls(Tail(batch))

RECURSIVE CountFailed(_, _)
CountFailed(batch, resps) ==
  IF Len(batch) = 0 THEN 0
  ELSE (IF compressSingleBlock(batch[1].text, resps[1]) = NullResult THEN 1 ELSE 0)
       + CountFailed(Tail(batch), Tail(resps))

\* A variant that fires every remaining miss at once.
CurrentBatch_AllAtOnce(q) ==
  SubSeq(q.missedBlocks, q.i + 1, Len(q.missedBlocks))

\* The batch of the loop iteration the request is suspended in (line 979).
CurrentBatch(q) ==
  SubSeq(q.missedBlocks, q.i + 1,
         IF q.i + maxParallelCompressions < Len(q.missedBlocks)
         THEN q.i + maxParallelCompressions ELSE Len(q.missedBlocks))

\* Lines 980-1054: what the handler computes when the batch's calls return.
ResumePlan(q, resps, memFsOk) ==
  LET batch == CurrentBatch(q)
      stored == StoreBatch(batch, resps, 1, messageCache, q.compressedSlots)
      next == q.i + maxParallelCompressions
      fin == FinishSwap(compactionHistory, memArchive, stored.slots, q.totalRaw,
                        2 * now, memFsOk)
      stage == IF q.aborted THEN "aborted"
               ELSE IF next < Len(q.missedBlocks) THEN "await"
               ELSE "swapped"
  IN [stage |-> stage,
      messageCache |-> stored.cache,
      compactionHistory |-> IF stage = "swapped" THEN fin.history ELSE compactionHistory,
      memArchive |-> IF stage = "swapped" THEN fin.archive ELSE memArchive,
      evicted |-> IF stage = "swapped" THEN fin.evicted ELSE <<>>,
      i |-> next,
      compressedSlots |-> stored.slots,
      calls |-> q.calls + CountCalls(batch),
      failed |-> q.failed + CountFailed(batch, resps),
      result |->
        IF stage = "swapped"
        THEN [kind |-> "compaction", summary |-> fin.summary,
              firstKeptEntryId |-> q.firstKeptEntryId, tokensBefore |-> q.tokensBefore]
        ELSE IF stage = "aborted" THEN Undefined
        ELSE NoResult]

\* Lines 977-1054: a batch of on-demand compressions returns; the loop goes
\* on to its next await, or the handler finishes.
BatchDone(r, memFsOk) ==
  /\ Running(r)
  /\ \E resps \in BatchResponses(CurrentBatch(req[r])) :
       \E plan \in {ResumePlan(req[r], resps, memFsOk)} :
         /\ memFsOk \/ Len(plan.evicted) > 0
         /\ messageCache' = plan.messageCache
         /\ compactionHistory' = plan.compactionHistory
         /\ memArchive' = plan.memArchive
         /\ historyDisk' =
              IF plan.stage = "swapped"
              THEN saveCompactionHistory(historyDisk, currentSessionId,
                                         plan.compactionHistory)
              ELSE historyDisk
         /\ cacheDisk' = IF plan.stage = "swapped" THEN plan.messageCache ELSE cacheDisk
         /\ req' = [req EXCEPT ![r] =
              [req[r] EXCEPT
                 !.pc = IF plan.stage = "await" THEN "awaiting" ELSE "returned",
                 !.stage = plan.stage,
                 !.i = plan.i,
                 !.compressedSlots = plan.compressedSlots,
                 !.calls = plan.calls,
                 !.failed = plan.failed,
                 !.evicted = plan.evicted,
                 !.archiveOk = memFsOk,
                 !.result = plan.result]]
  /\ UNCHANGED <<enabled, maxParallelCompressions, serviceUp, transcript, currentSessionId, rawArchive,
                 compressionQueue, deferredCompactionMinBlocks, now, turns, turnState>>

\* The host takes the result; the request's locals are gone.
Deliver(r) ==
  /\ req[r].pc = "returned"
  /\ req' = [req EXCEPT ![r] = [IdleReq EXCEPT !.pc = "delivered"]]
  /\ UNCHANGED <<enabled, maxParallelCompressions, serviceUp, transcript, currentSessionId, compactionHistory,
                 historyDisk, messageCache, cacheDisk, rawArchive, memArchive,
                 compressionQueue, deferredCompactionMinBlocks, now, turns, turnState>>

\* ------------------------------------------------------------------------
\* Turn completed (agent_end)
\* ------------------------------------------------------------------------
\* A variant of queueBlock that leaves the deferral threshold alone.
queueBlock_NoReset(st, block, rawFsOk) ==
  IF st.threw THEN st
  ELSE IF ~enabled \/ ~serviceUp THEN st
  ELSE IF CacheHas(st.cache, block.hash) THEN st
  ELSE IF Len(block.text) < MinCompressChars
  THEN [st EXCEPT !.cache = CacheSet(st.cache, block.hash,
                                     [compressed |-> block.text, tokensRaw |-> block.tokens,
                                      tokensCompressed |-> block.tokens])]
  ELSE IF ~rawFsOk THEN [st EXCEPT !.threw = TRUE]
  ELSE [st EXCEPT !.archive = archiveRawBlock(st.archive, block.hash, block.text)]

\* queueBlock followed by processQueue; st = [cache, archive, deferred,
\* threw].  archiveRawBlock is not guarded: when the raw archive cannot
\* be written (rawFsOk false) it throws out of processQueue and queueBlock,
\* after the item was taken off the queue and the deferral was reset.
queueBlock(st, block, rawFsOk) ==
  IF st.threw THEN st
  ELSE IF ~enabled \/ ~serviceUp THEN st
  ELSE IF CacheHas(st.cache, block.hash) THEN st
  ELSE IF Len(block.text) < MinCompressChars
  THEN [st EXCEPT !.cache = CacheSet(st.cache, block.hash,
                                     [compressed |-> block.text, tokensRaw |-> block.tokens,
                                      tokensCompressed |-> block.tokens])]
  ELSE IF ~rawFsOk THEN [st EXCEPT !.deferred = 0, !.threw = TRUE]
  ELSE [st EXCEPT !.deferred = 0,
                  !.archive = archiveRawBlock(st.archive, block.hash, block.text)]

\* The loop of lines 1298-1300; it ends at the first throw.
RECURSIVE QueueAll(_, _, _)
QueueAll(st, blocks, rawFsOk) ==
  IF Len(blocks) = 0 THEN st
  ELSE QueueAll(queueBlock(st, blocks[1], rawFsOk), Tail(blocks), rawFsOk)

\* The handler's state before any turn.
TurnIdle == [outcome |-> "none", caught |-> FALSE, narrative |-> "idle", thread |-> "absent"]

\* A variant of the handler without the catch of line 1315.
HandlerOutcome_NoCatch(threw) == IF threw THEN "threw" ELSE "completed"

\* How the agent_end handler ends: the try / catch of lines 1272 and 1315
\* swallows whatever the body throws.
HandlerOutcome(threw) == "completed"

\* updateNarrativeThread up to its await (lines 1063-1132): whether the
\* completion call is made.
NarrativeCalls(messages) ==
  /\ serviceUp
  /\ Len(messages) >= 2
  /\ \E i \in 1..Len(messages) : messages[i].role \in {"user", "assistant"}

\* Faults the turn-completed path can meet: none, a throw while the
\* messages are read and segmented, or an unwritable raw archive.
TurnFaults == {"none", "segment", "archive"}

\* Lines 1271-1316.  The narrative update is started and not awaited: the
\* handler ends while its completion call is in flight.
AgentEnd(fault) ==
  /\ turns < MaxTurns
  /\ \E st \in {QueueAll([cache |-> messageCache, archive |-> rawArchive,
                         deferred |-> deferredCompactionMinBlocks, threw |-> FALSE],
                        groupMessagesIntoBlocks(transcript.messages), fault # "archive")} :
       LET entered == ~Disabled /\ Len(transcript.messages) > 0
           handled == entered /\ fault # "segment"
           threw == entered /\ (fault = "segment" \/ st.threw)
       IN /\ messageCache' = IF handled /\ ~threw THEN cleanupCache(st.cache)
                             ELSE IF handled THEN st.cache ELSE messageCache
          /\ cacheDisk' = IF handled /\ ~threw /\ Len(st.cache) > MAX_CACHE_SIZE
                          THEN cleanupCache(st.cache) ELSE cacheDisk
          /\ rawArchive' = IF handled THEN st.archive ELSE rawArchive
          /\ deferredCompactionMinBlocks' =
               IF handled THEN st.deferred ELSE deferredCompactionMinBlocks
          /\ turnState' = [outcome |-> HandlerOutcome(threw), caught |-> threw,
                           narrative |-> IF handled /\ ~threw /\ NarrativeCalls(transcript.messages)
                                         THEN "pending" ELSE "idle",
                           thread |-> turnState.thread]
  /\ turns' = turns + 1
  /\ UNCHANGED <<enabled, maxParallelCompressions, serviceUp, transcript, currentSessionId, compactionHistory,
                 historyDisk, memArchive, compressionQueue, now, req>>

\* What the narrative completion call can bring: a usable text, a text
\* under 20 characters, an error response, or a rejection.
NarrativeResponses == {"ok", "short", "error", "throw"}

\* Lines 1132-1214: the completion call of the narrative update returns.
\* Every failure is logged and ends the update; only a usable text, with a
\* writable workspace, replaces SESSION_THREAD.md.
NarrativeDone(resp, threadFsOk) ==
  /\ turnState.narrative = "pending"
  /\ turnState' = [turnState EXCEPT
                     !.narrative = IF resp = "ok" /\ threadFsOk THEN "written"
                                   ELSE IF resp = "short" THEN "skipped" ELSE "failed",
                     !.thread = IF resp = "ok" /\ threadFsOk THEN "written" ELSE @]
  /\ UNCHANGED <<enabled, maxParallelCompressions, serviceUp, transcript, currentSessionId, compactionHistory,
                 historyDisk, messageCache, cacheDisk, rawArchive, memArchive,
                 compressionQueue, deferredCompactionMinBlocks, now, turns, req>>

\* ------------------------------------------------------------------------
\* The engine's specification
\* ------------------------------------------------------------------------
MainPool == {TinyUser, HalfUser, HalfAI, BigTool}

Summaries == {<<>>, <<"o", "l", "d">>}

SessionIds == {<<s, 0>> : s \in Sessions \cup RivalSessions} \cup {DefaultSession}

TokensBeforeValues ==
  {CompressTrigger, CompressTrigger + 1, CompressTrigger + 3, CompressTrigger + 2 * BlockSize}

SegIdle ==
  /\ segMessages = <<>>
  /\ segBlocks = <<>>
  /\ segEntryBlocks = <<>>
  /\ segDone = {}

CmpIdle ==
  /\ cmpRaw = <<>>
  /\ cmpResp = [kind |-> "error", text |-> <<>>]
  /\ cmpResult = NullResult
  /\ cmpDone = FALSE

Init ==
  /\ enabled \in BOOLEAN
  /\ maxParallelCompressions = MaxParallelCompressions
  /\ serviceUp \in BOOLEAN
  /\ transcript \in [messages : SeqsUpTo(MainPool, MaxWindow) \ {<<>>}, summary : Summaries,
                     idless : BOOLEAN]
  /\ currentSessionId = NullSession
  /\ compactionHistory = <<>>
  /\ historyDisk = [sid \in SessionIds |-> <<>>]
  /\ messageCache = <<>>
  /\ cacheDisk = <<>>
  /\ rawArchive = {}
  /\ memArchive = {}
  /\ compressionQueue = <<>>
  /\ deferredCompactionMinBlocks = 0
  /\ now = 0
  /\ turns = 0
  /\ turnState = TurnIdle
  /\ req = [r \in ReqIds |-> IdleReq]
  /\ SegIdle
  /\ CmpIdle

Next ==
  \/ \E r \in ReqIds, s \in Sessions, tokensBefore \in TokensBeforeValues,
        abortedAtStart \in BOOLEAN, memFsOk \in BOOLEAN, rawFsOk \in BOOLEAN :
       /\ Cardinality(Suspended) < MaxConcurrent
       /\ BeforeCompactStart(r, s, tokensBefore, abortedAtStart, memFsOk, rawFsOk)
       /\ UNCHANGED apartVars
  \/ \E r \in ReqIds, memFsOk \in BOOLEAN : BatchDone(r, memFsOk) /\ UNCHANGED apartVars
  \/ \E r \in ReqIds : Abort(r) /\ UNCHANGED apartVars
  \/ \E r \in ReqIds : Deliver(r) /\ UNCHANGED apartVars
  \/ \E fault \in TurnFaults : AgentEnd(fault) /\ UNCHANGED apartVars
  \/ \E resp \in NarrativeResponses, threadFsOk \in BOOLEAN :
       NarrativeDone(resp, threadFsOk) /\ UNCHANGED apartVars

Spec == Init /\ [][Next]_vars

\* ------------------------------------------------------------------------
\* The engine in service: the host sends a request for one session while a
\* request for another is suspended, and an earlier window of session 1
\* may have left a deferral threshold behind.
\* ------------------------------------------------------------------------
\* Windows of one, two and three eligible Blocks.
RivalWindows == {<<HalfUser>>, <<BigTool>>, <<HalfUser, BigTool>>}

\* The threshold a deferral records (line 895).
DeferredMinBlocks == 2

\* A request under the trigger, and one over it.
RivalTokensBefore == {CompressTrigger, CompressTrigger + 1}

\* The engine in service, whatever its configured batch size.
InService ==
  /\ enabled = TRUE
  /\ serviceUp = TRUE
  /\ transcript \in [messages : RivalWindows, summary : Summaries, idless : {FALSE}]
  /\ deferredCompactionMinBlocks \in {0, DeferredMinBlocks}
  /\ currentSessionId = IF deferredCompactionMinBlocks = 0 THEN NullSession ELSE <<1, 0>>
  /\ compactionHistory = <<>>
  /\ historyDisk = [sid \in SessionIds |-> <<>>]
  /\ messageCache = <<>>
  /\ cacheDisk = <<>>
  /\ rawArchive = {}
  /\ memArchive = {}
  /\ compressionQueue = <<>>
  /\ now = 0
  /\ turns = 0
  /\ turnState = TurnIdle
  /\ req = [r \in ReqIds |-> IdleReq]
  /\ SegIdle
  /\ CmpIdle

InitSessions ==
  /\ InService
  /\ maxParallelCompressions = MaxParallelCompressions

NextSessions ==
  \/ \E r \in ReqIds, s \in RivalSessions, tokensBefore \in RivalTokensBefore :
       /\ Cardinality(Suspended) < MaxRivalRequests
       /\ BeforeCompactStart(r, s, tokensBefore, FALSE, TRUE, TRUE)
       /\ UNCHANGED apartVars
  \/ \E r \in ReqIds : BatchDone(r, TRUE) /\ UNCHANGED apartVars
  \/ \E r \in ReqIds : Deliver(r) /\ UNCHANGED apartVars
  \/ AgentEnd("none") /\ UNCHANGED apartVars

SpecSessions == InitSessions /\ [][NextSessions]_vars

\* ------------------------------------------------------------------------
\* The engine in service under every batch size the configuration loader
\* accepts (loadConfig, lines 166-182, copies the value unchecked), with
\* every compression call returning.
\* ------------------------------------------------------------------------
ParallelValues == 0..MaxParallelLoaded

InitBatches ==
  /\ InService
  /\ maxParallelCompressions \in ParallelValues

\* Each compression call returns: a suspended request is resumed.
CallsReturn == \A r \in ReqIds : WF_vars(BatchDone(r, TRUE) /\ UNCHANGED apartVars)

SpecBatches == InitBatches /\ [][NextSessions]_vars /\ CallsReturn

\* ------------------------------------------------------------------------
\* The engine in service after a start that loaded a cache document of up
\* to MAX_CACHE_SIZE entries written by earlier runs (loadMessageCache).
\* ------------------------------------------------------------------------
LoadedEntry(k) ==
  LET text == <<"x">> \o Rep("y", k)
  IN [hash |-> hashText(text),
      result |-> [compressed |-> text, tokensRaw |-> estimateTokens(text),
                  tokensCompressed |-> estimateTokens(text)]]

LoadedCache(n) == [k \in 1..n |-> LoadedEntry(k)]

CacheWindows == {<<TinyUser, HalfUser, BigTool>>, <<HalfUser, BigTool>>}

InitCache ==
  /\ enabled = TRUE
  /\ maxParallelCompressions = MaxParallelCompressions
  /\ serviceUp = TRUE
  /\ transcript \in [messages : CacheWindows, summary : {<<>>}, idless : {FALSE}]
  /\ messageCache \in {LoadedCache(n) : n \in 0..MAX_CACHE_SIZE}
  /\ cacheDisk = messageCache
  /\ deferredCompactionMinBlocks = 0
  /\ currentSessionId = NullSession
  /\ compactionHistory = <<>>
  /\ historyDisk = [sid \in SessionIds |-> <<>>]
  /\ rawArchive = {}
  /\ memArchive = {}
  /\ compressionQueue = <<>>
  /\ now = 0
  /\ turns = 0
  /\ turnState = TurnIdle
  /\ req = [r \in ReqIds |-> IdleReq]
  /\ SegIdle
  /\ CmpIdle

SpecCache == InitCache /\ [][NextSessions]_vars

\* ------------------------------------------------------------------------
\* The segmenter's specification: one Unit sequence, both entry points
\* ------------------------------------------------------------------------
SegmentMessages ==
  /\ "flat" \notin segDone
  /\ segBlocks' = groupMessagesIntoBlocks(segMessages)
  /\ segDone' = segDone \cup {"flat"}
  /\ UNCHANGED <<segMessages, segEntryBlocks>>
  /\ UNCHANGED <<engineVars, cmpVars>>

SegmentEntries ==
  /\ "indexed" \notin segDone
  /\ segEntryBlocks' = groupEntriesIntoBlocks(EntriesOf(segMessages, 1, 0), 0)
  /\ segDone' = segDone \cup {"indexed"}
  /\ UNCHANGED <<segMessages, segBlocks>>
  /\ UNCHANGED <<engineVars, cmpVars>>

\* The engine at rest, for the specifications of its pure functions.
EngineIdle ==
  /\ enabled = TRUE
  /\ maxParallelCompressions = MaxParallelCompressions
  /\ transcript = [messages |-> <<>>, summary |-> <<>>, idless |-> FALSE]
  /\ currentSessionId = NullSession
  /\ compactionHistory = <<>>
  /\ historyDisk = [sid \in SessionIds |-> <<>>]
  /\ messageCache = <<>>
  /\ cacheDisk = <<>>
  /\ rawArchive = {}
  /\ memArchive = {}
  /\ compressionQueue = <<>>
  /\ deferredCompactionMinBlocks = 0
  /\ now = 0
  /\ turns = 0
  /\ turnState = TurnIdle
  /\ req = [r \in ReqIds |-> IdleReq]

InitSeg ==
  /\ EngineIdle
  /\ serviceUp = TRUE
  /\ segMessages \in SeqsUpTo(SegPool, MaxSegLen)
  /\ segBlocks = <<>>
  /\ segEntryBlocks = <<>>
  /\ segDone = {}
  /\ CmpIdle

NextSeg == SegmentMessages \/ SegmentEntries

SpecSeg == InitSeg /\ [][NextSeg]_vars

\* ------------------------------------------------------------------------
\* The compression adapter's specification: one call of compressSingleBlock
\* on a raw text and a service answer of any lengths up to MaxRawLen.
\* ------------------------------------------------------------------------
CompressBlock ==
  /\ ~cmpDone
  /\ cmpResult' = compressSingleBlock(cmpRaw, cmpResp)
  /\ cmpDone' = TRUE
  /\ UNCHANGED <<cmpRaw, cmpResp>>
  /\ UNCHANGED <<engineVars, segVars>>

InitCompress ==
  /\ EngineIdle
  /\ serviceUp \in BOOLEAN
  /\ SegIdle
  /\ cmpRaw \in {Rep("r", n) : n \in 0..MaxRawLen}
  /\ cmpResp \in {[kind |-> "error", text |-> <<>>]}
                 \cup {[kind |-> "ok", text |-> Rep("z", m)] : m \in 0..MaxRawLen}
  /\ cmpResult = NullResult
  /\ cmpDone = FALSE

NextCompress == CompressBlock

SpecCompress == InitCompress /\ [][NextCompress]_vars

\* ------------------------------------------------------------------------
\* Properties of compaction requests
\* ------------------------------------------------------------------------
\* The request has returned and the host has not yet taken the result.
Returned(r) == req[r].pc = "returned"

Compacted(r) == Returned(r) /\ req[r].result.kind = "compaction"

\* Every Block of the window of request r, before the swap floor is applied.
WindowBlocks(r) ==
  LET branchEntries == BranchEntries(req[r].session)
  IN groupEntriesIntoBlocks(branchEntries, PrevCompactionIndex(branchEntries) + 1)

\* 0-based position in the transcript of the entry the result names as
\* the first one kept.
CutIndex(r) ==
  LET branchEntries == BranchEntries(req[r].session)
  IN CHOOSE i \in 0..(Len(branchEntries) - 1) :
       branchEntries[i + 1].id = req[r].result.firstKeptEntryId

SwappedHashes(r) ==
  {req[r].compressedSlots[k].hash : k \in 1..Len(req[r].compressedSlots)}

\* C1: after a request that returns a compacted result, every Unit of the
\* window that precedes the returned cut-point belongs to a Block that was
\* swapped in this request and is in the raw archive, Units of Blocks
\* below the minimum-swap-token floor included.
C1_UnitsBeforeCutRecoverable ==
  \A r \in ReqIds :
    Compacted(r) =>
      \A k \in 1..Len(WindowBlocks(r)) :
        LET block == WindowBlocks(r)[k]
        IN (\E u \in 1..Len(block.entries) : block.entries[u].index < CutIndex(r))
           => /\ block.hash \in SwappedHashes(r)
              /\ \E f \in rawArchive : f.hash = block.hash /\ f.text = block.text

\* The request went to the service for every Block it selected, none of
\* them was cached, and every call failed.
AllCompressionsFailed(r) ==
  /\ Returned(r)
  /\ ~req[r].aborted
  /\ Len(req[r].compressedSlots) > 0
  /\ req[r].cacheHits = 0
  /\ req[r].failed = Len(req[r].compressedSlots)

\* C2: when no selected Block is cached and the compression service fails
\* for every one of them, the request returns a cancellation, appends no
\* history entry and leaves the cache without any entry for those Blocks,
\* as it was before the request.
C2_AllFailedCancels ==
  \A r \in ReqIds :
    AllCompressionsFailed(r) =>
      /\ req[r].result = Cancel
      /\ compactionHistory = req[r].history0
      /\ \A h \in SwappedHashes(r) : ~CacheHas(messageCache, h)

\* C3: a request that observes the host's cancellation signal commits
\* nothing new: the in-memory and persisted history are what they were
\* when the request started (no seeded entry either), and the cache holds
\* no entry for a Block of the request that it did not hold at the start.
C3_AbortCommitsNothing ==
  \A r \in ReqIds :
    (Returned(r) /\ req[r].stage = "aborted") =>
      /\ compactionHistory = req[r].history0
      /\ historyDisk = req[r].historyDisk0
      /\ \A h \in SwappedHashes(r) :
           CacheHas(messageCache, h) => CacheHas(req[r].cache0, h)

\* C4: every request handled while the engine is enabled returns either
\* the explicit cancellation marker or a compacted result, never an
\* undefined one, an abort by the cancellation signal included.
C4_CancelOrCompacted ==
  \A r \in ReqIds :
    (Returned(r) /\ enabled) => req[r].result.kind \in {"cancel", "compaction"}

\* The eligible Blocks of request r: the window's Blocks at or above the
\* minimum-swap-token floor.
EligibleBlocks(r) ==
  FilterTiny(WindowBlocks(r), IF MinSwapTokens = 0 THEN 50 ELSE MinSwapTokens)

\* C5: after a successful swap the number of swapped Blocks is at least
\* one and strictly less than the number of eligible Blocks, so at least
\* one eligible Block stays raw.
C5_OneBlockStaysRaw ==
  \A r \in ReqIds :
    Compacted(r) =>
      /\ Len(req[r].compressedSlots) >= 1
      /\ Len(req[r].compressedSlots) < Len(EligibleBlocks(r))

\* C5's case: the overflow asks for more than the window holds, and the
\* swap stops one Block short of the eligible Blocks.
C5_Witness ==
  \E r \in ReqIds :
    /\ Compacted(r)
    /\ req[r].tokensBefore - CompressTrigger > SumTokens(EligibleBlocks(r))
    /\ Len(EligibleBlocks(r)) >= 2
    /\ Len(req[r].compressedSlots) = Len(EligibleBlocks(r)) - 1

\* C6: after the eviction pass of a successful swap the history is empty
\* or its entries' compressed tokens, plus 15 per entry, plus the base
\* overhead 20, do not exceed evictTrigger.
C6_EvictionBound ==
  \A r \in ReqIds :
    Compacted(r) =>
      \/ Len(compactionHistory) = 0
      \/ baseOverhead + SumField(compactionHistory, FALSE)
           + overheadPerBlock * Len(compactionHistory) <= EvictTrigger

\* C6's case: the pass evicted an entry and kept another.
C6_Witness ==
  \E r \in ReqIds :
    /\ Compacted(r)
    /\ Len(req[r].evicted) > 0
    /\ Len(compactionHistory) > 0

\* C7: every history entry removed by eviction has, when the pass ends,
\* an archive record under its date+hash name that holds its full
\* compressed content, also when the archive write fails.
C7_EvictedIsArchived ==
  \A r \in ReqIds :
    Compacted(r) =>
      \A k \in 1..Len(req[r].evicted) :
        \E f \in memArchive :
          /\ f.filename = ArchiveFileName(req[r].evicted[k])
          /\ f.body = req[r].evicted[k].compressed

\* ------------------------------------------------------------------------
\* Properties of the segmenters
\* ------------------------------------------------------------------------
BothSegmented == segDone = {"flat", "indexed"}

HardSplitFragment(messages) ==
  /\ Len(messages) = 1
  /\ estimateTokens(extractMessageText(messages[1])) > BlockSize

\* C9: every Block either segmenter emits has a token estimate
\* ceil(len(text)/4) of at most blockSize, unless it is a hard-split
\* fragment of a single Unit whose own estimate exceeded blockSize; Blocks
\* joined from several Units are covered.
C9_BlockWithinCeiling ==
  /\ \A k \in 1..Len(segBlocks) :
       \/ estimateTokens(segBlocks[k].text) <= BlockSize
       \/ HardSplitFragment(segBlocks[k].messages)
  /\ \A k \in 1..Len(segEntryBlocks) :
       \/ estimateTokens(segEntryBlocks[k].text) <= BlockSize
       \/ HardSplitFragment(EntryMessages(segEntryBlocks[k].entries))

\* ------------------------------------------------------------------------
\* Properties of the compression adapter
\* ------------------------------------------------------------------------
\* C10: an entry the adapter returns is the service output only when the
\* output's token estimate is strictly less than 95% of the raw estimate;
\* otherwise its compressed text is the raw input and tokensCompressed
\* equals tokensRaw; in every returned entry tokensCompressed <= tokensRaw.
C10_SanityCheck ==
  (cmpDone /\ cmpResult # NullResult) =>
    LET rawTokens == (Len(cmpRaw) + 3) \div 4
        outTokens == (Len(cmpResp.text) + 3) \div 4
    IN /\ cmpResult.tokensRaw = rawTokens
       /\ cmpResult.tokensCompressed <= cmpResult.tokensRaw
       /\ \/ /\ cmpResult.compressed = cmpRaw
             /\ cmpResult.tokensCompressed = rawTokens
          \/ /\ cmpResult.compressed = cmpResp.text
             /\ cmpResult.tokensCompressed = outTokens
             /\ 20 * outTokens < 19 * rawTokens
       /\ 20 * outTokens >= 19 * rawTokens =>
            /\ cmpResult.compressed = cmpRaw
            /\ cmpResult.tokensCompressed = rawTokens

\* C10's case: an output shorter than the input, yet not under 95% of it,
\* is turned down and the raw input is returned.
C10_Witness ==
  /\ cmpDone
  /\ cmpResp.kind = "ok"
  /\ Len(cmpRaw) >= MinCompressChars
  /\ (Len(cmpResp.text) + 3) \div 4 < (Len(cmpRaw) + 3) \div 4
  /\ 20 * ((Len(cmpResp.text) + 3) \div 4) >= 19 * ((Len(cmpRaw) + 3) \div 4)
  /\ cmpResult # NullResult
  /\ cmpResult.compressed = cmpRaw

\* ------------------------------------------------------------------------
\* Properties of the cache and of the compression calls
\* ------------------------------------------------------------------------
MissedHashes(r) == {req[r].missedBlocks[k].hash : k \in 1..Len(req[r].missedBlocks)}

\* C11: the compression service is invoked at most once per distinct
\* Block content hash: no Block whose hash was in the cache is sent to it,
\* and Blocks of one request with the same hash cost at most one call.
C11_OneCallPerHash ==
  \A r \in ReqIds :
    /\ \A h \in MissedHashes(r) : ~CacheHas(req[r].cache0, h)
    /\ req[r].calls <= Cardinality(MissedHashes(r))

\* C12: cache store is idempotent: a store under a hash that already holds
\* an entry for the same content leaves the stored compressed text and
\* both token counts as they were, so a lookup returns the same entry
\* after one store and after two.
C12_StoreIdempotent ==
  [][\A k \in 1..Len(messageCache) :
       CacheHas(messageCache', messageCache[k].hash) =>
         CacheGet(messageCache', messageCache[k].hash) = messageCache[k].result]_vars

\* C13: after a turn-completed event every Block of the turn that is not
\* in the cache is on its way through the background pipeline (queued for
\* compression), so that it is compressed and cached under its hash
\* without a compaction request having to do it.
C13_TurnBlocksCachedOrQueued ==
  (turns > 0 /\ enabled /\ serviceUp) =>
    \A k \in 1..Len(groupMessagesIntoBlocks(transcript.messages)) :
      LET block == groupMessagesIntoBlocks(transcript.messages)[k]
      IN \/ CacheHas(messageCache, block.hash)
         \/ \E q \in 1..Len(compressionQueue) : compressionQueue[q].hash = block.hash

\* ------------------------------------------------------------------------
\* Properties of the guards of a compaction request
\* ------------------------------------------------------------------------
\* Request r starts in this step.
Starts(r) == req[r].pc = "idle" /\ req'[r].pc # "idle"

\* C14: a request that starts while the completion service is unavailable,
\* or that cannot determine the identifier of the first kept Unit, returns
\* the cancellation marker (never a compacted result) and has changed
\* neither the history, in memory or persisted, nor the cache.
C14_GuardsCancelUntouched ==
  [][\A r \in ReqIds :
       (Starts(r) /\ enabled /\ (~serviceUp \/ req'[r].stage = "noFirstKept")) =>
         /\ req'[r].pc = "returned"
         /\ req'[r].result.kind = "cancel"
         /\ messageCache' = messageCache
         /\ cacheDisk' = cacheDisk
         /\ historyDisk' = historyDisk
         /\ \/ compactionHistory' = compactionHistory
            \/ /\ currentSessionId' # currentSessionId
               /\ compactionHistory' = historyDisk[currentSessionId']]_vars

\* C14's case: a request with a swap plan whose first kept entry carries no
\* id has been cancelled.
C14_Witness ==
  \E r \in ReqIds :
    /\ Returned(r)
    /\ serviceUp
    /\ transcript.idless
    /\ req[r].stage = "noFirstKept"
    /\ Len(EligibleBlocks(r)) >= 2

\* ------------------------------------------------------------------------
\* Properties of the archives
\* ------------------------------------------------------------------------
\* C15: archive records are write-once: a record that exists under a key
\* (content hash of a raw Block, date+hash of an evicted entry) is in the
\* archive after every step with its first content, and no second record
\* appears under its key.
C15_ArchiveWriteOnce ==
  [][/\ \A f \in rawArchive : f \in rawArchive'
     /\ \A f \in memArchive : f \in memArchive'
     /\ \A f, g \in rawArchive' : f.hash = g.hash => f = g
     /\ \A f, g \in memArchive' : f.filename = g.filename => f = g]_vars

\* C15's case: an eviction pass met an entry whose file name was already
\* taken by a record written at another time, and the record is still the
\* first one.
C15_Witness ==
  \E r \in ReqIds :
    /\ Compacted(r)
    /\ \E k \in 1..Len(req[r].evicted) :
         \E f \in memArchive :
           /\ f.filename = ArchiveFileName(req[r].evicted[k])
           /\ f.header.date # req[r].evicted[k].timestamp

\* ------------------------------------------------------------------------
\* Properties of the swap order
\* ------------------------------------------------------------------------
\* Request r returns a compacted result in this step.
Completes(r) ==
  /\ req[r].pc \in {"idle", "awaiting"}
  /\ req'[r].pc = "returned"
  /\ req'[r].result.kind = "compaction"

IsSuffixOf(part, text) ==
  /\ Len(part) <= Len(text)
  /\ part = SubSeq(text, Len(text) - Len(part) + 1, Len(text))

\* The history entry a request has just pushed: the newest entry of the
\* history, or of the evicted entries when the pass emptied the history.
NewestEntry(history, evicted) ==
  IF Len(history) > 0 THEN history[Len(history)] ELSE evicted[Len(evicted)]

\* The eligible Blocks of the window of session s (the transcript is not
\* changed by any step, so this is the same before and after a step).
EligibleOfSession(s) ==
  LET branchEntries == BranchEntries(s)
  IN FilterTiny(groupEntriesIntoBlocks(branchEntries, PrevCompactionIndex(branchEntries) + 1),
                IF MinSwapTokens = 0 THEN 50 ELSE MinSwapTokens)

BaseHistory ==
  IF currentSessionId' # currentSessionId
  THEN loadCompactionHistory(historyDisk, currentSessionId')
  ELSE compactionHistory

\* The entries a step evicts, oldest first.
EvictedByStep ==
  IF \E r \in ReqIds : Completes(r)
  THEN req'[CHOOSE r \in ReqIds : Completes(r)].evicted
  ELSE <<>>

\* C17: history entries preserve creation order.  In every step the
\* entries evicted by the step followed by the history after the step are
\* the history before the step followed by the entries the step adds (the
\* seeded summary before the swap's entry), so the history is always a
\* contiguous suffix of all entries ever added, in the order they were
\* added, and it is in non-decreasing timestamp order.
C17_HistoryKeepsCreationOrder ==
  [][LET base == BaseHistory
         all == EvictedByStep \o compactionHistory'
     IN /\ Len(all) >= Len(base)
        /\ SubSeq(all, 1, Len(base)) = base
        /\ Len(all) - Len(base) <= 2
        /\ (Len(all) - Len(base) = 2) =>
             /\ Len(base) = 0
             /\ all[1].compressed = transcript.summary
        /\ \A i \in 1..(Len(all) - 1) : all[i].timestamp <= all[i + 1].timestamp]_vars

\* C17's case: a swap has pushed its entry behind older ones and the pass
\* has evicted from the front, leaving a suffix of several entries.
C17_Witness ==
  \E r \in ReqIds :
    /\ Compacted(r)
    /\ Len(req[r].evicted) >= 1
    /\ Len(compactionHistory) >= 2

\* ------------------------------------------------------------------------
\* Properties of the savings walk
\* ------------------------------------------------------------------------
\* The smallest integer not below six tenths of tokens.
CeilSixTenths(tokens) ==
  CHOOSE c \in 0..tokens : 10 * c >= 6 * tokens /\ 10 * (c - 1) < 6 * tokens

\* Estimated saving of one Block: its tokens minus the cached compressed
\* tokens, or minus the discount estimate when the Block is not cached.
EstimatedSaving(block, cache) ==
  block.tokens - (IF CacheHas(cache, block.hash)
                  THEN CacheGet(cache, block.hash).tokensCompressed
                  ELSE CeilSixTenths(block.tokens))

RECURSIVE AccumulatedSavings(_, _, _)
AccumulatedSavings(blocks, cache, k) ==
  IF k = 0 THEN 0
  ELSE AccumulatedSavings(blocks, cache, k - 1) + EstimatedSaving(blocks[k], cache)

\* The numbers of oldest Blocks whose accumulated savings reach the overflow.
EnoughBlocks(blocks, cache, overflow) ==
  {k \in 1..Len(blocks) : AccumulatedSavings(blocks, cache, k) >= overflow}

SmallestEnough(blocks, cache, overflow) ==
  CHOOSE k \in EnoughBlocks(blocks, cache, overflow) :
    \A j \in EnoughBlocks(blocks, cache, overflow) : k <= j

\* Request r went through the savings walk and planned a swap.
PlannedSwap(r) == req[r].stage \in {"aborted", "await", "swapped"}

Overflow(r) == req[r].tokensBefore - CompressTrigger

\* C18 as stated: whenever k is the smallest number of oldest eligible
\* Blocks whose accumulated estimated savings reach the overflow, the
\* request sets blocksToSwap = k and a compacted result swaps exactly
\* those k Blocks.
C18_SwapCountIsWalkCount ==
  \A r \in ReqIds :
    (PlannedSwap(r) /\ EnoughBlocks(EligibleBlocks(r), req[r].cache0, Overflow(r)) # {}) =>
      LET k == SmallestEnough(EligibleBlocks(r), req[r].cache0, Overflow(r))
      IN /\ req[r].blocksToSwap = k
         /\ Compacted(r) => Len(req[r].compressedSlots) = k

\* The number of Blocks the walk and the keep-one-raw rule allow for n
\* eligible Blocks: the smallest sufficient k when it is below n, and
\* n - 1 when k = n or when no number of Blocks is sufficient.
AllowedSwapCount(blocks, cache, overflow) ==
  IF /\ EnoughBlocks(blocks, cache, overflow) # {}
     /\ SmallestEnough(blocks, cache, overflow) < Len(blocks)
  THEN SmallestEnough(blocks, cache, overflow)
  ELSE Len(blocks) - 1

\* C18 amended: a request that reaches the savings walk sets blocksToSwap
\* to the smallest sufficient k only when k is below the number n of
\* eligible Blocks; when k = n, or when no k is sufficient, it sets
\* n - 1, and when that is 0 it cancels and swaps nothing.  A compacted
\* result swaps exactly the oldest blocksToSwap eligible Blocks.
C18_SwapCountIsClampedWalkCount ==
  \A r \in ReqIds :
    (req[r].stage \in {"aborted", "await", "swapped", "deferNow"}) =>
      LET eligible == EligibleBlocks(r)
          allowed == AllowedSwapCount(eligible, req[r].cache0, Overflow(r))
      IN /\ (req[r].stage = "deferNow") <=> (allowed = 0)
         /\ (req[r].stage = "deferNow") =>
              /\ req[r].result.kind = "cancel"
              /\ req[r].compressedSlots = <<>>
         /\ PlannedSwap(r) => req[r].blocksToSwap = allowed
         /\ Compacted(r) =>
              /\ Len(req[r].compressedSlots) = allowed
              /\ \A k \in 1..allowed : req[r].compressedSlots[k].hash = eligible[k].hash

\* C18's case: the savings of the oldest Block alone fall short of the
\* overflow, those of the oldest two reach it, a third eligible Block
\* exists, and the request swaps exactly two.
C18_Witness ==
  \E r \in ReqIds :
    /\ Compacted(r)
    /\ Len(EligibleBlocks(r)) >= 3
    /\ EnoughBlocks(EligibleBlocks(r), req[r].cache0, Overflow(r)) # {}
    /\ SmallestEnough(EligibleBlocks(r), req[r].cache0, Overflow(r)) = 2
    /\ Len(req[r].compressedSlots) = 2

\* ------------------------------------------------------------------------
\* Properties of the Turns
\* ------------------------------------------------------------------------
IsSummaryUnit(msg) == msg.role \in {"compactionSummary", "branchSummary"}

\* The Units that segmentation keeps, in order.
KeptUnits(messages) == SelectSeq(messages, LAMBDA msg : ~IsSummaryUnit(msg))

\* Positions of the kept Units that open a Turn: the first one and every
\* user Unit.
TurnStarts(units) == {i \in 1..Len(units) : i = 1 \/ units[i].role = "user"}

\* The Turn that opens at position i: up to the Unit before the next start.
TurnAt(units, i) ==
  LET later == {j \in TurnStarts(units) : j > i}
      last == IF later = {} THEN Len(units)
              ELSE (CHOOSE j \in later : \A l \in later : j <= l) - 1
  IN SubSeq(units, i, last)

\* The Turns of the input in order.
TurnsOf(messages) ==
  LET units == KeptUnits(messages)
      starts == TurnStarts(units)
  IN [t \in 1..Cardinality(starts) |->
        TurnAt(units, CHOOSE i \in starts : Cardinality({j \in starts : j <= i}) = t)]

\* Token estimate of a Turn: the estimate of its Units' texts joined by a
\* blank line.
TurnTokens(turn) == estimateTokens(JoinTexts(MapText(turn), <<NL, NL>>))

AllTurnsFit(messages) ==
  \A t \in 1..Len(TurnsOf(messages)) : TurnTokens(TurnsOf(messages)[t]) <= BlockSize

\* C19: when every Turn of the input has a token estimate of at most
\* blockSize, either segmenter emits exactly one Block per Turn, in Turn
\* order, each Block holding exactly the Units of its Turn.
C19_OneBlockPerFittingTurn ==
  (BothSegmented /\ AllTurnsFit(segMessages)) =>
    LET inputTurns == TurnsOf(segMessages)
    IN /\ Len(segBlocks) = Len(inputTurns)
       /\ Len(segEntryBlocks) = Len(inputTurns)
       /\ \A t \in 1..Len(inputTurns) :
            /\ segBlocks[t].messages = inputTurns[t]
            /\ segBlocks[t].text = JoinTexts(MapText(inputTurns[t]), <<NL, NL>>)
            /\ EntryMessages(segEntryBlocks[t].entries) = inputTurns[t]

\* C19's case: three Turns that all fit, one of them of several Units.
C19_Witness ==
  /\ BothSegmented
  /\ AllTurnsFit(segMessages)
  /\ Len(TurnsOf(segMessages)) = 3
  /\ \E t \in 1..3 : Len(TurnsOf(segMessages)[t]) >= 2
  /\ Len(segBlocks) = 3

\* C20: an input of one Turn whose token estimate T exceeds blockSize B is
\* emitted by either segmenter as at least ceil(T / B) Blocks, none of
\* which exceeds B except hard-split fragments, however the tokens are
\* spread over the Turn's Units.
C20_OversizedTurnSplits ==
  (/\ BothSegmented
   /\ Len(TurnsOf(segMessages)) = 1
   /\ TurnTokens(TurnsOf(segMessages)[1]) > BlockSize) =>
    LET T == TurnTokens(TurnsOf(segMessages)[1])
        atLeast == (T + BlockSize - 1) \div BlockSize
    IN /\ Len(segBlocks) >= atLeast
       /\ Len(segEntryBlocks) >= atLeast
       /\ \A k \in 1..Len(segBlocks) :
            \/ segBlocks[k].tokens <= BlockSize
            \/ HardSplitFragment(segBlocks[k].messages)
       /\ \A k \in 1..Len(segEntryBlocks) :
            \/ segEntryBlocks[k].tokens <= BlockSize
            \/ HardSplitFragment(EntryMessages(segEntryBlocks[k].entries))

\* ------------------------------------------------------------------------
\* Properties of the eviction pass
\* ------------------------------------------------------------------------
\* The visible total of a history: the base overhead plus, per entry, its
\* compressed tokens and the per-entry overhead.
VisibleTotal(history) ==
  baseOverhead + SumField(history, FALSE) + overheadPerBlock * Len(history)

InArchive(archive, entry) ==
  \E f \in archive :
    /\ f.filename = ArchiveFileName(entry)
    /\ f.body = entry.compressed

\* C21: eviction is FIFO and minimal.  A step that is not a completed swap
\* removes nothing from the history.  In a completed swap the removed
\* entries are a prefix of the history as it stood before the pass, each
\* one was removed while the visible total just before its removal
\* exceeded evictTrigger, the pass goes on until the total is within
\* evictTrigger (or nothing is left), a history within evictTrigger is
\* left whole, and with a writable archive directory every removed entry
\* is in the archive.
C21_EvictionFifoMinimal ==
  [][LET base == BaseHistory
         removed == EvictedByStep
         before == removed \o compactionHistory'
     IN /\ Len(before) >= Len(base)
        /\ SubSeq(before, 1, Len(base)) = base
        /\ \A j \in 1..Len(removed) :
             VisibleTotal(SubSeq(before, j, Len(before))) > EvictTrigger
        /\ (VisibleTotal(before) <= EvictTrigger) => (removed = <<>>)
        /\ (removed # <<>>) =>
             \/ compactionHistory' = <<>>
             \/ VisibleTotal(compactionHistory') <= EvictTrigger
        /\ \A r \in ReqIds :
             (Completes(r) /\ req'[r].archiveOk) =>
               \A j \in 1..Len(removed) : InArchive(memArchive', removed[j])]_vars

\* C21's case: a pass that found the total above evictTrigger, removed the
\* oldest entry only, archived it, and left the rest at the trigger or
\* just below it.
C21_Witness ==
  \E r \in ReqIds :
    /\ Compacted(r)
    /\ req[r].archiveOk
    /\ Len(req[r].evicted) = 1
    /\ InArchive(memArchive, req[r].evicted[1])
    /\ Len(compactionHistory) >= 1
    /\ VisibleTotal(compactionHistory) >= EvictTrigger - 1

\* ------------------------------------------------------------------------
\* Properties of the turn-completed path
\* ------------------------------------------------------------------------
\* A step of the agent_end handler.
TurnStep == turns' = turns + 1

\* A step in which the narrative update ends.
NarrativeStep == turns' = turns /\ turnState'.narrative # turnState.narrative

\* C22: a failure in the turn-completed path is never surfaced to the
\* host.  Every step of the agent_end handler ends with the handler
\* completed normally, whatever was thrown inside it, and with the
\* narrative update at most in flight, never finished; and the step that
\* ends the narrative update, failed or not, changes no request, no
\* result and none of the state a compaction request reads or writes.
C22_TurnFailuresSwallowed ==
  [][/\ TurnStep =>
          /\ turnState'.outcome = "completed"
          /\ turnState'.narrative \in {"idle", "pending"}
          /\ req' = req
     /\ NarrativeStep =>
          /\ turnState'.outcome = turnState.outcome
          /\ req' = req
          /\ messageCache' = messageCache
          /\ cacheDisk' = cacheDisk
          /\ compactionHistory' = compactionHistory
          /\ historyDisk' = historyDisk
          /\ currentSessionId' = currentSessionId
          /\ deferredCompactionMinBlocks' = deferredCompactionMinBlocks
          /\ rawArchive' = rawArchive
          /\ memArchive' = memArchive]_vars

\* C22's case: the narrative update of a completed turn has failed and a
\* compaction request that awaited on-demand compression has returned a
\* compacted result.
C22_Witness ==
  /\ turnState.outcome = "completed"
  /\ turnState.narrative = "failed"
  /\ \E r \in ReqIds : Compacted(r) /\ req[r].calls >= 1

\* ------------------------------------------------------------------------
\* Properties of the cut-point
\* ------------------------------------------------------------------------
\* C23: in every compacted result the cut-point identifier is the
\* identifier of the first Unit of the oldest eligible Block that was not
\* swapped, and no Unit at or after the cut-point contributed text to a
\* swapped Block, also when the swapped and the first kept Block are
\* hard-split fragments of the same oversized Unit.
C23_CutPointAfterSwapped ==
  \A r \in ReqIds :
    Compacted(r) =>
      LET eligible == EligibleBlocks(r)
          n == Len(req[r].compressedSlots)
      IN /\ n < Len(eligible)
         /\ req[r].result.firstKeptEntryId = eligible[n + 1].entries[1].id
         /\ \A k \in 1..n : \A u \in 1..Len(eligible[k].entries) :
              eligible[k].entries[u].index < CutIndex(r)

\* C24: every compacted result advances the cut: the returned cut-point
\* identifier is not the identifier of the first Unit of the window, so
\* at least one whole Unit lies before the cut-point.
C24_CutAdvances ==
  \A r \in ReqIds :
    Compacted(r) =>
      /\ req[r].result.firstKeptEntryId # WindowBlocks(r)[1].entries[1].id
      /\ CutIndex(r) > WindowBlocks(r)[1].entries[1].index

\* ------------------------------------------------------------------------
\* Properties of the sessions
\* ------------------------------------------------------------------------
\* The session identifier of the request r as the step leaves it.
SessionOfRequest(r) == detectSessionId(BranchEntries(req'[r].session))

EntriesIn(history) == {history[i] : i \in 1..Len(history)}

\* C25: the history entry created by a compaction request for session S
\* is appended to S's history and persisted to S's history document only,
\* and the document returned to the host renders only S's entries (those
\* of S's document, the seeded summary and the new entry), also when a
\* request for another session started while this one was suspended.
C25_EntryGoesToOwnSession ==
  [][\A r \in ReqIds :
       Completes(r) =>
         LET sid == SessionOfRequest(r)
             created == NewestEntry(compactionHistory', req'[r].evicted)
         IN /\ currentSessionId' = sid
            /\ \A other \in SessionIds \ {sid} : historyDisk'[other] = historyDisk[other]
            /\ historyDisk'[sid] = compactionHistory'
            /\ req'[r].result.summary = RenderHistory(historyDisk'[sid])
            /\ \A e \in EntriesIn(compactionHistory') :
                 \/ e = created
                 \/ e \in EntriesIn(historyDisk[sid])
                 \/ e.compressed = transcript.summary]_vars

\* ------------------------------------------------------------------------
\* Properties of the deferral
\* ------------------------------------------------------------------------
\* A Block of the completed turn that queueBlock pushes onto the queue:
\* not cached and not below the minimum compressible size.
TurnQueuesNewBlock ==
  \E k \in 1..Len(groupMessagesIntoBlocks(transcript.messages)) :
    LET block == groupMessagesIntoBlocks(transcript.messages)[k]
    IN ~CacheHas(messageCache, block.hash) /\ Len(block.text) >= MinCompressChars

\* The request r starts in this step while its window has fewer eligible
\* Blocks than the recorded threshold.
HeldBack(r) ==
  /\ deferredCompactionMinBlocks > 0
  /\ Len(EligibleOfSession(req'[r].session)) < deferredCompactionMinBlocks

\* C26: a request with positive overflow and a window of one eligible
\* Block swaps nothing, records the threshold 2 and returns Cancelled.
\* While the threshold stands, a request whose window has fewer eligible
\* Blocks than the threshold returns Cancelled whatever its overflow, and
\* leaves the threshold.  The threshold changes only by a deferral (to 2),
\* by a completed turn that queues a new Block (to 0) or by a request
\* that proceeds to a swap (to 0), and each of the two resets it.
C26_DeferralThreshold ==
  [][/\ \A r \in ReqIds :
          (Starts(r) /\ enabled /\ serviceUp) =>
            LET n == Len(EligibleOfSession(req'[r].session))
                overflow == req'[r].tokensBefore - CompressTrigger
                nothingSwapped ==
                  /\ req'[r].pc = "returned"
                  /\ req'[r].result.kind = "cancel"
                  /\ req'[r].compressedSlots = <<>>
                  /\ historyDisk' = historyDisk
                  /\ messageCache' = messageCache
                  /\ rawArchive' = rawArchive
                  /\ memArchive' = memArchive
            IN /\ HeldBack(r) =>
                    /\ nothingSwapped
                    /\ deferredCompactionMinBlocks' = deferredCompactionMinBlocks
               /\ (~HeldBack(r) /\ n = 1 /\ overflow > 0) =>
                    /\ nothingSwapped
                    /\ deferredCompactionMinBlocks' = DeferredMinBlocks
               /\ (~HeldBack(r) /\ n >= 2 /\ overflow > 0 /\ ~transcript.idless) =>
                    /\ req'[r].blocksToSwap >= 1
                    /\ deferredCompactionMinBlocks' = 0
     /\ (TurnStep /\ enabled /\ serviceUp /\ turnState'.caught = FALSE /\ TurnQueuesNewBlock) =>
          deferredCompactionMinBlocks' = 0
     /\ (deferredCompactionMinBlocks' # deferredCompactionMinBlocks) =>
          \/ /\ deferredCompactionMinBlocks' = DeferredMinBlocks
             /\ \E r \in ReqIds : Starts(r) /\ req'[r].stage = "deferNow"
          \/ /\ deferredCompactionMinBlocks' = 0
             /\ \E r \in ReqIds : Starts(r) /\ ~HeldBack(r)
                                  /\ Len(EligibleOfSession(req'[r].session)) >= 2
          \/ /\ deferredCompactionMinBlocks' = 0
             /\ TurnStep /\ TurnQueuesNewBlock]_vars

\* C26's case: after a completed turn a request deferred, and the next
\* request, over the trigger and with the same window of one eligible
\* Block, was cancelled on the threshold.
C26_Witness ==
  /\ turns = 1
  /\ deferredCompactionMinBlocks = DeferredMinBlocks
  /\ \E r \in ReqIds :
       /\ Returned(r)
       /\ req[r].stage = "deferred"
       /\ req[r].tokensBefore > CompressTrigger
       /\ Len(EligibleBlocks(r)) = 1


\* ------------------------------------------------------------------------
\* C27: every compaction request terminates, provided each compression call
\* returns, for every window and every non-negative batch size the
\* configuration loader accepts, 0 included: a request suspended in the
\* batch loop eventually leaves it.
\* ------------------------------------------------------------------------
C27_EveryRequestTerminates ==
  \A r \in ReqIds : (req[r].pc = "awaiting") ~> (req[r].pc # "awaiting")


\* ------------------------------------------------------------------------
\* Seeding the history with the transcript's earlier summary
\* ------------------------------------------------------------------------
\* The step puts the transcript's summary at the head of an empty history
\* (lines 925-938).
SeedsSummary ==
  /\ transcript.summary # <<>>
  /\ \E r \in ReqIds : Starts(r)
  /\ Len(BaseHistory) = 0
  /\ LET all == EvictedByStep \o compactionHistory'
     IN Len(all) >= 1 /\ all[1].compressed = transcript.summary

\* A summary entry of the session has already been added and evicted: the
\* archive holds its document.
SummaryArchived == \E f \in memArchive : f.body = transcript.summary

\* C28: the transcript's pre-existing summary is added to a session's
\* history at most once, on the session's first swap; no later swap adds a
\* summary entry again, also after eviction has emptied the history.  So no
\* step seeds the history when a summary entry of the session has already
\* been added and evicted to the archive.
C28_SummarySeededOnce ==
  [][SeedsSummary => ~SummaryArchived]_vars


\* ------------------------------------------------------------------------
\* Content addressing of the cache
\* ------------------------------------------------------------------------
\* C29: hash equality implies value equality in the cache: every write
\* under a hash, by the turn-completed path or by any request and in any
\* interleaving, stores the same entry.  So whatever entry a request has
\* stored or found under a hash is the entry the cache holds under that
\* hash, whoever wrote last; a failed compression and a successful one of
\* the same Block never leave different values.
C29_HashDeterminesValue ==
  \A r \in ReqIds :
    \A k \in 1..Len(req[r].compressedSlots) :
      LET slot == req[r].compressedSlots[k]
      IN (slot.result # NullResult /\ CacheHas(messageCache, slot.hash)) =>
           CacheGet(messageCache, slot.hash) = slot.result


\* ------------------------------------------------------------------------
\* Requests with nothing to do
\* ------------------------------------------------------------------------
\* C30: a request whose window yields zero eligible Blocks, or whose
\* overflow tokensBefore - compressTrigger is at most 0, returns the
\* cancellation marker, calls the compression service zero times, and
\* leaves the history (in memory, apart from loading the session's stored
\* history, and persisted), the cache and both archives unchanged.
C30_NothingToDoCancels ==
  [][\A r \in ReqIds :
       (/\ Starts(r)
        /\ enabled
        /\ \/ Len(EligibleOfSession(req'[r].session)) = 0
           \/ req'[r].tokensBefore - CompressTrigger <= 0) =>
         /\ req'[r].pc = "returned"
         /\ req'[r].result.kind = "cancel"
         /\ req'[r].calls = 0
         /\ compactionHistory' = BaseHistory
         /\ historyDisk' = historyDisk
         /\ messageCache' = messageCache
         /\ cacheDisk' = cacheDisk
         /\ rawArchive' = rawArchive
         /\ memArchive' = memArchive]_vars

\* C30's case: with the service available, a request over a window of
\* several eligible Blocks and no overflow has been cancelled while the
\* cache already held entries.
C30_Witness ==
  \E r \in ReqIds :
    /\ Returned(r)
    /\ enabled /\ serviceUp
    /\ req[r].tokensBefore - CompressTrigger <= 0
    /\ Len(EligibleBlocks(r)) >= 2
    /\ req[r].stage = "underTrigger"
    /\ req[r].result.kind = "cancel"
    /\ Len(messageCache) >= 1


\* ------------------------------------------------------------------------
\* Parallelism of on-demand compression
\* ------------------------------------------------------------------------
\* The compression calls request r has in flight: the batch it awaits.
InFlight(r) == IF req[r].pc = "awaiting" THEN CurrentBatch(req[r]) ELSE <<>>

\* C31: during a compaction request the number of on-demand compression
\* calls in flight never exceeds maxParallelCompressions: the misses are
\* compressed in consecutive batches of at most that size, each batch
\* starting where the one before it ended, after that one has returned.
C31_BoundedParallelism ==
  \A r \in ReqIds :
    /\ Len(InFlight(r)) <= maxParallelCompressions
    /\ req[r].pc = "awaiting" =>
         /\ \E n \in 0..Len(req[r].missedBlocks) : req[r].i = n * maxParallelCompressions
         /\ \A k \in 1..Len(InFlight(r)) :
              InFlight(r)[k] = req[r].missedBlocks[req[r].i + k]
         /\ req[r].calls <= req[r].i

\* C31's case: a request with more misses than the configured parallelism
\* awaits its second batch.
C31_Witness ==
  \E r \in ReqIds :
    /\ req[r].pc = "awaiting"
    /\ maxParallelCompressions >= 1
    /\ Len(req[r].missedBlocks) > maxParallelCompressions
    /\ req[r].i >= maxParallelCompressions
    /\ Len(InFlight(r)) >= 1


\* ------------------------------------------------------------------------
\* The entry a swap creates
\* ------------------------------------------------------------------------
\* C32: after a compacted result is returned the history is non-empty, its
\* last entry is the entry this request created, and the returned document
\* contains that entry's compressed text: the eviction pass of the request
\* never removes the entry just created.
C32_NewEntrySurvives ==
  [][\A r \in ReqIds :
       Completes(r) =>
         LET history == compactionHistory'
             created == NewestEntry(history, req'[r].evicted)
             document == req'[r].result.summary
         IN /\ Len(history) >= 1
            /\ history[Len(history)] = created
            /\ \A k \in 1..Len(req'[r].evicted) : req'[r].evicted[k] # created
            /\ document.blocks >= 1
            /\ document.sections[document.blocks].text = created.compressed]_vars


\* ------------------------------------------------------------------------
\* Size and persistence of the cache
\* ------------------------------------------------------------------------
\* Request r returns to the host in this step.
Returns(r) == req[r].pc # "returned" /\ req'[r].pc = "returned"

\* C33: the cache is size-bounded: after the turn-completed handler and
\* after every compaction request it holds at most MAX_CACHE_SIZE entries,
\* and a pruning removes exactly the oldest-inserted entries in excess of
\* the ceiling and no others.
C33_CacheBounded ==
  [][(TurnStep \/ \E r \in ReqIds : Returns(r)) =>
       /\ Len(messageCache') <= MAX_CACHE_SIZE
       /\ \A k \in 1..Len(messageCache) :
            ~CacheHas(messageCache', messageCache[k].hash) =>
              /\ \A j \in 1..k : ~CacheHas(messageCache', messageCache[j].hash)
              /\ Len(messageCache') = MAX_CACHE_SIZE]_vars


\* C34: every cache write is persisted: when a handler that added cache
\* entries returns (the verbatim store of below-threshold Blocks on turn
\* completion, or the on-demand results of a swap), the cache document on
\* disk holds those entries, so a restart reloads the map that was in
\* memory.
C34_CacheWritesPersisted ==
  [][(TurnStep \/ \E r \in ReqIds : Completes(r)) =>
       \A k \in 1..Len(messageCache') :
         ~CacheHas(messageCache, messageCache'[k].hash) =>
           /\ CacheHas(cacheDisk', messageCache'[k].hash)
           /\ CacheGet(cacheDisk', messageCache'[k].hash) = messageCache'[k].result]_vars


\* ------------------------------------------------------------------------
\* The raw archive of swapped Blocks
\* ------------------------------------------------------------------------
\* The raw text of every Block request r swaps is in the raw archive under
\* the Block's hash.
SwappedArchived(r) ==
  \A k \in 1..Len(req[r].compressedSlots) :
    \E f \in rawArchive :
      /\ f.hash = req[r].compressedSlots[k].hash
      /\ f.text = EligibleBlocks(r)[k].text
      /\ f.hash = hashText(f.text)

BelowFloor(s) ==
  LET branchEntries == BranchEntries(s)
      allBlocks == groupEntriesIntoBlocks(branchEntries, PrevCompactionIndex(branchEntries) + 1)
      minTokens == IF MinSwapTokens = 0 THEN 50 ELSE MinSwapTokens
  IN {allBlocks[k] : k \in {j \in 1..Len(allBlocks) : allBlocks[j].tokens < minTokens}}

\* The number of Blocks of the window of session s at or above the floor.
AtFloorCount(s) ==
  LET branchEntries == BranchEntries(s)
      allBlocks == groupEntriesIntoBlocks(branchEntries, PrevCompactionIndex(branchEntries) + 1)
      minTokens == IF MinSwapTokens = 0 THEN 50 ELSE MinSwapTokens
  IN Cardinality({j \in 1..Len(allBlocks) : allBlocks[j].tokens >= minTokens})

\* C36: no Block whose token estimate is below minSwapTokens is ever
\* selected for swap: it is not counted in the savings walk or toward the
\* number of eligible Blocks, the swap neither archives nor compresses it,
\* and its text is in no history entry the swap creates.
C36_FloorBlocksNeverSwapped ==
  [][\A r \in ReqIds :
       req'[r].pc \in {"awaiting", "returned"} =>
         \E tiny \in {BelowFloor(req'[r].session)} :
           /\ req'[r].blocksToSwap <= AtFloorCount(req'[r].session)
           /\ \A b \in tiny :
                /\ \A k \in 1..Len(req'[r].compressedSlots) :
                     /\ req'[r].compressedSlots[k].hash # b.hash
                     /\ req'[r].compressedSlots[k].result.compressed # b.text
                /\ \A k \in 1..Len(req'[r].missedBlocks) :
                     req'[r].missedBlocks[k].hash # b.hash
                /\ Starts(r) =>
                     \A f \in rawArchive' \ rawArchive : f.hash # b.hash
                /\ Completes(r) =>
                     NewestEntry(compactionHistory', req'[r].evicted).compressed # b.text]_vars

\* C36's case: a swap over a window that holds a Block under the floor
\* next to the Blocks it swapped.
C36_Witness ==
  \E r \in ReqIds :
    /\ Compacted(r)
    /\ BelowFloor(req[r].session) # {}
    /\ Len(req[r].compressedSlots) >= 1
    /\ req[r].calls >= 1


\* ------------------------------------------------------------------------
\* Segmentation keeps every Unit, in order
\* ------------------------------------------------------------------------
Lost == [role |-> "lost", content |-> <<>>, array |-> FALSE]

\* The Units a sequence of Blocks [messages, text] stands for, in order: a
\* Block of whole Units gives its Units (its text being their join), and
\* consecutive hard-split fragments of a Unit give that Unit once their
\* texts, none of them empty, add up to the Unit's rendered text.  Anything
\* else gives the marker Lost.
RECURSIVE UnitsOfBlocks(_, _)
UnitsOfBlocks(blocks, pending) ==
  IF Len(blocks) = 0 THEN (IF pending = <<>> THEN <<>> ELSE <<Lost>>)
  ELSE LET b == blocks[1]
       IN IF HardSplitFragment(b.messages)
          THEN LET whole == extractMessageText(b.messages[1])
                   sofar == pending \o b.text
               IN IF Len(b.text) = 0 \/ Len(sofar) > Len(whole)
                     \/ SubSeq(whole, 1, Len(sofar)) # sofar
                  THEN <<Lost>>
                  ELSE IF sofar = whole
                  THEN <<b.messages[1]>> \o UnitsOfBlocks(Tail(blocks), <<>>)
                  ELSE UnitsOfBlocks(Tail(blocks), sofar)
          ELSE IF pending # <<>> \/ Len(b.messages) = 0
                  \/ b.text # JoinTexts(MapText(b.messages), <<NL, NL>>)
          THEN <<Lost>>
          ELSE b.messages \o UnitsOfBlocks(Tail(blocks), <<>>)

\* No Block reaches over the start of a Turn: a user Unit is the first
\* Unit of its Block.
WithinTurns(blocks) ==
  \A k \in 1..Len(blocks) :
    \A i \in 2..Len(blocks[k].messages) : blocks[k].messages[i].role # "user"

EntryBlocksAsBlocks(entryBlocks) ==
  [k \in 1..Len(entryBlocks) |->
     [messages |-> EntryMessages(entryBlocks[k].entries), text |-> entryBlocks[k].text]]

\* C37: segmentation loses and reorders nothing.  Summary Units are
\* dropped, the Turns partition the remaining Units in order (their
\* concatenation is the kept Units and no Block crosses a Turn start), and
\* the emitted Blocks in order reproduce the kept Units in order, each Unit
\* in exactly one Block or hard-split into consecutive non-empty fragments
\* whose concatenation is the Unit's rendered text.
C37_SegmentationLossless ==
  LET kept == KeptUnits(segMessages)
      turns1 == MsgTurns(segMessages, <<>>, <<>>)
  IN /\ JoinTexts(turns1, <<>>) = kept
     /\ turns1 = TurnsOf(segMessages)
     /\ \A t \in 1..Len(turns1) : Len(turns1[t]) >= 1
     /\ "flat" \in segDone =>
          /\ UnitsOfBlocks(segBlocks, <<>>) = kept
          /\ WithinTurns(segBlocks)
     /\ "indexed" \in segDone =>
          /\ UnitsOfBlocks(EntryBlocksAsBlocks(segEntryBlocks), <<>>) = kept
          /\ WithinTurns(EntryBlocksAsBlocks(segEntryBlocks))

\* C37's case: an input with a summary Unit, a Turn of several Units and a
\* Unit that was hard-split, all segmented.
C37_Witness ==
  /\ BothSegmented
  /\ \E i \in 1..Len(segMessages) : IsSummaryUnit(segMessages[i])
  /\ \E k \in 1..Len(segBlocks) : Len(segBlocks[k].messages) >= 2
  /\ \E k \in 1..Len(segBlocks) :
       /\ HardSplitFragment(segBlocks[k].messages)
       /\ segBlocks[k].text # extractMessageText(segBlocks[k].messages[1])
  /\ Len(KeptUnits(segMessages)) >= 3


\* ------------------------------------------------------------------------
\* The document a swap returns
\* ------------------------------------------------------------------------
\* C38: the document returned by a successful swap renders exactly the
\* entries of the history as it stands after the eviction pass, in history
\* order and labeled Block 1..N; the history document the request persists
\* for its session holds the same entries; and the returned tokensBefore
\* is the pre-compaction token count the host supplied.
C38_DocumentRendersHistory ==
  [][\A r \in ReqIds :
       Completes(r) =>
         LET document == req'[r].result.summary
             history == compactionHistory'
         IN /\ document.blocks = Len(history)
            /\ DOMAIN document.sections = 1..Len(history)
            /\ \A k \in 1..Len(history) :
                 /\ document.sections[k].label = k
                 /\ document.sections[k].text = history[k].compressed
                 /\ document.sections[k].timestamp = history[k].timestamp
            /\ historyDisk'[SessionOfRequest(r)] = history
            /\ req'[r].result.tokensBefore = req'[r].tokensBefore]_vars


\* ------------------------------------------------------------------------
\* The master switch
\* ------------------------------------------------------------------------
\* C39: while the master switch enabled is false neither handler changes
\* engine state: a turn-completed event and a compaction request leave the
\* cache, the compression queue, the history, the deferral threshold and
\* both archives unchanged, and no completion-service call is made (no
\* request awaits a compression, no narrative update is started).
C39_DisabledChangesNothing ==
  [][~enabled =>
       /\ messageCache' = messageCache
       /\ cacheDisk' = cacheDisk
       /\ compressionQueue' = compressionQueue
       /\ compactionHistory' = compactionHistory
       /\ historyDisk' = historyDisk
       /\ currentSessionId' = currentSessionId
       /\ deferredCompactionMinBlocks' = deferredCompactionMinBlocks
       /\ rawArchive' = rawArchive
       /\ memArchive' = memArchive
       /\ turnState'.narrative = "idle"
       /\ \A r \in ReqIds :
            /\ req'[r].pc # "awaiting"
            /\ req'[r].calls = 0
            /\ Starts(r) => req'[r].result = Undefined]_vars

\* C39's case: with the switch off, a turn of several messages has
\* completed and a request over a window with an overflow has returned.
C39_Witness ==
  /\ ~enabled
  /\ serviceUp
  /\ turns > 0
  /\ Len(transcript.messages) >= 2
  /\ \E r \in ReqIds :
       /\ Returned(r)
       /\ req[r].tokensBefore > CompressTrigger
       /\ Len(EligibleBlocks(r)) >= 2

============================================================================
